---- MODULE Spec2Model ----
(***************************************************************************)
(* Model of the article generation pipeline (Gleeam/ai-post-automation):   *)
(*   - the completion client (services/openai.js): generateCompletion,     *)
(*     generateJSON, repairTruncatedJSON, and utils/helpers.js             *)
(*     retryWithBackoff;                                                   *)
(*   - the translator (generators/translator.js);                          *)
(*   - the article assembler and the batch runner (generators/article.js). *)
(* Texts are sequences of one-character strings.                           *)
(***************************************************************************)
EXTENDS Integers, Sequences, FiniteSets, TLC

VARIABLES
    \* ---- repairTruncatedJSON harness
    original,      \* a well-formed JSON text
    truncated,     \* its prefix handed to repairTruncatedJSON
    repaired,      \* what repairTruncatedJSON returned
    parsed,        \* outcome of JSON.parse on the repaired text
    rpc,           \* position of the harness
    \* ---- completion client (generateCompletion / generateJSON)
    fnKind,        \* which function is running: "completion" or "json"
    maxTokens,     \* current token budget
    attempt,       \* generateJSON loop counter
    i,             \* retryWithBackoff loop counter
    lastError,     \* retryWithBackoff lastError
    outcomes,      \* outcome of each invocation of fn in the current retryWithBackoff call
    waits,         \* delays slept in the current retryWithBackoff call
    httpCalls,     \* HTTP calls made by the whole generateCompletion/generateJSON call
    budgets,       \* token budget sent with each logical request, in order
    finishes,      \* finish_reason of each response received, in order
    completion,    \* the response held by the function
    pc,            \* position inside the function
    result,        \* what the function returned or threw
    trail,         \* generateJSON: what was done with each response, in order
    \* ---- generateMultilingualArticle
    article,       \* the source article
    sourceLocale,
    locales,       \* the target locales, in order
    textCalls,     \* per target and text unit: the translateText call
    seoCalls,      \* per target: the translateSEO call
    requests,      \* completion requests issued so far
    results,       \* per target: what its translation promise settled to
    multilingualArticle,
    tpc,           \* position inside generateMultilingualArticle
    \* ---- generateArticleBatch and the generateArticle call it is waiting for
    topics,        \* the inputs, in order
    researchOnline, \* options.researchOnline
    bi,            \* the loop index i (from 1)
    articles,
    errors,
    batchLog,      \* begin and end of every generateArticle call, and the pauses
    bpc,           \* position inside generateArticleBatch
    gstage,        \* the stage generateArticle is waiting for
    glog,          \* start and end of every stage of the running generateArticle call
    onlineContext, \* whether research found recent data
    outline,
    finished,      \* every generateArticle call that is over: its log and its outcome
    searches,      \* fetchWebSearch calls issued so far
    \* ---- saveArticle (interactive program and cron) and the posts collection
    store,         \* the slugs of the stored documents
    program,       \* "cli" or "cron"
    generated,     \* the article generateArticle returned
    publish,       \* the publish argument, or config.publish
    multilingual,
    dryRun,
    slug,          \* generateUniqueSlug: let slug
    counter,       \* generateUniqueSlug: let counter
    probes,        \* the slugs slugExists was asked about, with the answers
    uniqueSlug,    \* what generateUniqueSlug returned
    handed,        \* the documents handed to createPost
    spc,           \* position inside saveArticle
    \* ---- the search aggregator (services/trends.js)
    credentials,   \* the backends whose API key is set
    operation,     \* fetchWebSearch, researchTopicOnline or getTrendingTopics
    queries,       \* how many search queries the operation has
    calls,         \* the fetchWebSearch / fetchNewsAPITrends calls it started
    found,         \* what the operation returned
    opc,           \* position inside the operation
    \* ---- the request parameters of the completion client (services/openai.js)
    requestFn,     \* generateCompletion or generateJSON
    modelOption,   \* options.model, or OPENAI_MODEL; empty when neither is set
    sampling,      \* options.temperature, topP, frequencyPenalty, presencePenalty
    params,        \* the params object handed to chat.completions.create
    ppc,
    \* ---- generateSEO (generators/seo.js)
    seoArticle,    \* the title and the content generateSEO is given
    seoPayload,    \* the object generateJSON returned
    validated,     \* what generateSEO returned
    vpc,
    \* ---- analyzeSEOScore (generators/seo.js)
    scored,        \* the article handed to analyzeSEOScore
    scores,        \* the analysis it returned
    scpc,
    \* ---- concurrent saveArticle runs on one collection
    posts,         \* the documents of the posts collection, in insertion order
    writers,       \* each run: its position, base slug, candidate, counter
    \* ---- the store connection (services/database.js)
    uri,           \* whether MONGODB_URI is set
    client,        \* let client
    db,            \* let db
    created,       \* how many MongoClient objects were created
    lastCall,      \* the last call started, with the state it found
    completed,     \* how many calls are over
    cpc            \* position: idle, or inside client.connect() or client.close()

repairVars == <<original, truncated, repaired, parsed, rpc>>
clientVars == <<fnKind, maxTokens, attempt, i, lastError, outcomes, waits,
                httpCalls, budgets, finishes, completion, pc, result, trail>>
translatorVars == <<article, sourceLocale, locales, textCalls, seoCalls, requests,
                    results, multilingualArticle, tpc>>
batchVars == <<topics, researchOnline, bi, articles, errors, batchLog, bpc, gstage, glog,
               onlineContext, outline, finished, searches>>
saveVars == <<store, program, generated, publish, multilingual, dryRun, slug, counter,
              probes, uniqueSlug, handed, spc>>
searchVars == <<credentials, operation, queries, calls, found, opc>>
paramVars == <<requestFn, modelOption, sampling, params, ppc>>
seoVars == <<seoArticle, seoPayload, validated, vpc>>
scoreVars == <<scored, scores, scpc>>
writersVars == <<posts, writers>>
connectionVars == <<uri, client, db, created, lastCall, completed, cpc>>
vars == <<repairVars, clientVars, translatorVars, batchVars, saveVars, searchVars,
          paramVars, seoVars, scoreVars,
          writersVars,
          connectionVars>>

\* what the steps of one component leave alone
exceptRepair ==
    <<clientVars, translatorVars, batchVars, saveVars, searchVars, paramVars, seoVars, scoreVars,
      writersVars,
      connectionVars>>
exceptClient ==
    <<repairVars, translatorVars, batchVars, saveVars, searchVars, paramVars, seoVars, scoreVars,
      writersVars,
      connectionVars>>
exceptTranslator ==
    <<repairVars, clientVars, batchVars, saveVars, searchVars, paramVars, seoVars, scoreVars,
      writersVars,
      connectionVars>>
exceptBatch ==
    <<repairVars, clientVars, translatorVars, saveVars, searchVars, paramVars, seoVars, scoreVars,
      writersVars,
      connectionVars>>
exceptSave ==
    <<repairVars, clientVars, translatorVars, batchVars, searchVars, paramVars, seoVars, scoreVars,
      writersVars,
      connectionVars>>
exceptParams ==
    <<repairVars, clientVars, translatorVars, batchVars, saveVars, searchVars, seoVars, scoreVars,
      writersVars,
      connectionVars>>
exceptSEO ==
    <<repairVars, clientVars, translatorVars, batchVars, saveVars, searchVars, paramVars, scoreVars,
      writersVars,
      connectionVars>>
exceptScore ==
    <<repairVars, clientVars, translatorVars, batchVars, saveVars, searchVars, paramVars,
      seoVars,
      writersVars,
      connectionVars>>
exceptWriters ==
    <<repairVars, clientVars, translatorVars, batchVars, saveVars, searchVars,
      paramVars, seoVars, scoreVars,
      connectionVars>>
exceptConnection ==
    <<repairVars, clientVars, translatorVars, batchVars, saveVars, searchVars,
      paramVars, seoVars, scoreVars, writersVars>>
exceptSearch ==
    <<repairVars, clientVars, translatorVars, batchVars, saveVars, paramVars, seoVars, scoreVars,
      writersVars,
      connectionVars>>

----------------------------------------------------------------------------
(* Characters and texts *)

QUOTE == "\""
BSLASH == "\\"
SPACE == " "

Min(a, b) == IF a <= b THEN a ELSE b

RECURSIVE Pow2(_)
Pow2(n) == IF n = 0 THEN 1 ELSE 2 * Pow2(n - 1)

RECURSIVE TrimLeft(_)
TrimLeft(s) == IF s # <<>> /\ Head(s) = SPACE THEN TrimLeft(Tail(s)) ELSE s

RECURSIVE TrimRight(_)
TrimRight(s) ==
    IF s # <<>> /\ s[Len(s)] = SPACE THEN TrimRight(SubSeq(s, 1, Len(s) - 1)) ELSE s

\* String.prototype.trim
Trim(s) == TrimRight(TrimLeft(s))

----------------------------------------------------------------------------
(* JSON.parse, as an acceptor over texts.  Every P* operator takes the text *)
(* and the index to read at, and returns the index after what it read, or 0 *)
(* when the text is not JSON there.                                         *)

EscapeChars == {QUOTE, BSLASH, "/", "b", "f", "n", "r", "t"}

RECURSIVE SkipWS(_, _)
SkipWS(s, k) == IF k <= Len(s) /\ s[k] = SPACE THEN SkipWS(s, k + 1) ELSE k

\* body of a string, k just after the opening quote
RECURSIVE PStrBody(_, _)
PStrBody(s, k) ==
    IF k > Len(s) THEN 0
    ELSE IF s[k] = QUOTE THEN k + 1
    ELSE IF s[k] = BSLASH
         THEN IF k + 1 <= Len(s) /\ s[k + 1] \in EscapeChars
              THEN PStrBody(s, k + 2) ELSE 0
    ELSE PStrBody(s, k + 1)

RECURSIVE PNumber(_, _)
PNumber(s, k) == IF k <= Len(s) /\ s[k] = "1" THEN PNumber(s, k + 1) ELSE k

RECURSIVE PValue(_, _), PMember(_, _), PElement(_, _)
PValue(s, k) ==
    IF k > Len(s) THEN 0
    ELSE IF s[k] = "{"
         THEN LET m == SkipWS(s, k + 1)
              IN IF m <= Len(s) /\ s[m] = "}" THEN m + 1 ELSE PMember(s, m)
    ELSE IF s[k] = "["
         THEN LET m == SkipWS(s, k + 1)
              IN IF m <= Len(s) /\ s[m] = "]" THEN m + 1 ELSE PElement(s, m)
    ELSE IF s[k] = QUOTE THEN PStrBody(s, k + 1)
    ELSE IF s[k] = "1" THEN PNumber(s, k)
    ELSE 0

\* members of an object from index k on, up to and including the closing brace
PMember(s, k) ==
    IF k > Len(s) \/ s[k] # QUOTE THEN 0
    ELSE LET e == PStrBody(s, k + 1)
             c == SkipWS(s, e)
         IN IF e = 0 \/ c > Len(s) \/ s[c] # ":" THEN 0
            ELSE LET v == PValue(s, SkipWS(s, c + 1))
                     n == SkipWS(s, v)
                 IN IF v = 0 \/ n > Len(s) THEN 0
                    ELSE IF s[n] = "}" THEN n + 1
                    ELSE IF s[n] = "," THEN PMember(s, SkipWS(s, n + 1))
                    ELSE 0

\* elements of an array from index k on, up to and including the closing bracket
PElement(s, k) ==
    LET v == PValue(s, k)
        n == SkipWS(s, v)
    IN IF v = 0 \/ n > Len(s) THEN 0
       ELSE IF s[n] = "]" THEN n + 1
       ELSE IF s[n] = "," THEN PElement(s, SkipWS(s, n + 1))
       ELSE 0

\* JSON.parse(s) does not throw
JSONValid(s) ==
    LET v == PValue(s, SkipWS(s, 1))
    IN v # 0 /\ SkipWS(s, v) = Len(s) + 1

\* the members read from index k on (k at a key's opening quote) of a text
\* PMember accepts there: each key with the index of its closing quote
RECURSIVE MemberKeys(_, _)
MemberKeys(s, k) ==
    LET e == PStrBody(s, k + 1)
        c == SkipWS(s, e)
        v == PValue(s, SkipWS(s, c + 1))
        n == SkipWS(s, v)
        member == [key |-> SubSeq(s, k + 1, e - 2), end |-> e - 1]
    IN IF s[n] = "," THEN {member} \cup MemberKeys(s, SkipWS(s, n + 1)) ELSE {member}

\* the top-level members of a valid s (none unless s is an object)
TopMembers(s) ==
    LET k == SkipWS(s, 1)
        m == SkipWS(s, k + 1)
    IN IF s[k] # "{" \/ s[m] = "}" THEN {} ELSE MemberKeys(s, m)

\* Object.keys(JSON.parse(s)) for a valid s
TopKeys(s) == {m.key : m \in TopMembers(s)}

\* JSON.parse(s): whether it succeeds and, if so, the value, given by the text
\* without its outer white space and by its top-level keys
JSONparse(s) ==
    IF JSONValid(s) THEN [ok |-> TRUE, text |-> Trim(s), keys |-> TopKeys(s)]
    ELSE [ok |-> FALSE, text |-> <<>>, keys |-> {}]

----------------------------------------------------------------------------
(* repairTruncatedJSON (services/openai.js) *)

ScanInit == [braces |-> 0, brackets |-> 0, inString |-> FALSE, escaped |-> FALSE]

\* one iteration of the scanning loop
ScanStep(st, char) ==
    IF st.escaped THEN [st EXCEPT !.escaped = FALSE]
    ELSE IF char = BSLASH THEN [st EXCEPT !.escaped = TRUE]
    ELSE IF char = QUOTE THEN [st EXCEPT !.inString = ~st.inString]
    ELSE IF st.inString THEN st
    ELSE IF char = "{" THEN [st EXCEPT !.braces = st.braces + 1]
    ELSE IF char = "}" THEN [st EXCEPT !.braces = st.braces - 1]
    ELSE IF char = "[" THEN [st EXCEPT !.brackets = st.brackets + 1]
    ELSE IF char = "]" THEN [st EXCEPT !.brackets = st.brackets - 1]
    ELSE st

RECURSIVE Scan(_, _, _)
Scan(json, k, st) ==
    IF k > Len(json) THEN st ELSE Scan(json, k + 1, ScanStep(st, json[k]))

\* char repeated n times (nothing when n <= 0): the two closing while loops
Repeat(char, n) == [x \in 1..n |-> char]

\* what the function appends once the scan is over
Closers(st) ==
    (IF st.inString THEN <<QUOTE>> ELSE <<>>)
        \o Repeat("]", st.brackets) \o Repeat("}", st.braces)

repairTruncatedJSON(content) ==
    LET json == Trim(content)
    IN json \o Closers(Scan(json, 1, ScanInit))

----------------------------------------------------------------------------
(* Well-formed JSON texts to truncate *)

MaxDepth == 2

Str(body) == <<QUOTE>> \o body \o <<QUOTE>>

Scalars == {<<"1">>, Str(<<"a">>), Str(<<BSLASH, QUOTE>>)}

\* values nested at most d deep
RECURSIVE JSONValues(_)
JSONValues(d) ==
    IF d = 0 THEN Scalars
    ELSE LET V == JSONValues(d - 1)
         IN V \cup {<<"[", "]">>, <<"{", "}">>}
              \cup {<<"[">> \o v \o <<"]">> : v \in V}
              \cup {<<"[">> \o v \o <<",", "1", "]">> : v \in Scalars}
              \cup {<<"{">> \o Str(<<"b">>) \o <<":">> \o v \o <<"}">> : v \in V}

Documents ==
    {<<"{">> \o Str(<<"a">>) \o <<":">> \o v \o <<"}">> : v \in JSONValues(MaxDepth)}
    \cup
    {<<"{">> \o Str(<<"a">>) \o <<":">> \o v \o <<",">> \o Str(<<"b">>) \o <<":">> \o w \o <<"}">> :
        v \in JSONValues(MaxDepth - 1), w \in Scalars}

\* the top-level keys of doc whose closing quote lies within its first n characters
KeysBefore(doc, n) == {m.key : m \in {x \in TopMembers(doc) : x.end <= n}}

NotParsed == [ok |-> FALSE, text |-> <<>>, keys |-> {}]

RepairIdle ==
    /\ original = <<>>
    /\ truncated = <<>>
    /\ repaired = <<>>
    /\ parsed = NotParsed
    /\ rpc = "idle"

RepairInit ==
    /\ original \in Documents
    /\ truncated = <<>>
    /\ repaired = <<>>
    /\ parsed = NotParsed
    /\ rpc = "input"

\* the response is cut off after n characters
Truncate ==
    /\ rpc = "input"
    /\ \E n \in 1..(Len(original) - 1) : truncated' = SubSeq(original, 1, n)
    /\ rpc' = "truncated"
    /\ UNCHANGED <<original, repaired, parsed>>
    /\ UNCHANGED exceptRepair

Repair ==
    /\ rpc = "truncated"
    /\ repaired' = repairTruncatedJSON(truncated)
    /\ rpc' = "repaired"
    /\ UNCHANGED <<original, truncated, parsed>>
    /\ UNCHANGED exceptRepair

Parse ==
    /\ rpc = "repaired"
    /\ parsed' = JSONparse(repaired)
    /\ rpc' = "parsed"
    /\ UNCHANGED <<original, truncated, repaired>>
    /\ UNCHANGED exceptRepair

RepairNext == Truncate \/ Repair \/ Parse

----------------------------------------------------------------------------
(* retryWithBackoff (utils/helpers.js), as generateCompletion and generateJSON *)
(* call it: retryWithBackoff(fn, 3, 2000)                                     *)

BackoffMaxRetries == 3
BackoffInitialDelay == 2000

\* mutant: the delay is not doubled
BackoffDelayConstant(initialDelay, n) == initialDelay

\* const delay = initialDelay * Math.pow(2, i)
BackoffDelay(initialDelay, n) == initialDelay * Pow2(n)

\* if (i < maxRetries - 1): a wait follows this failure
WaitsAfterFailure(n, retries) == n < retries - 1

----------------------------------------------------------------------------
(* generateCompletion and generateJSON (services/openai.js) *)

DefaultCompletionMaxTokens == 8000
DefaultJSONMaxTokens == 4000
maxRetries == 2
TokenCeiling == 16000

\* options.maxTokens: absent, or a number
TokenOptions == {0, 1000, 6000, 9000, 16000, 20000}

\* message.content absent (null or undefined)
Absent == <<"absent">>

ValidJSONText == <<"{">> \o Str(<<"a">>) \o <<":", "1", "}">>
PaddedJSONText == <<SPACE>> \o ValidJSONText \o <<SPACE>>
CutInArray == <<"{">> \o Str(<<"a">>) \o <<":", "[", "1">>
CutInString == <<"{">> \o Str(<<"a">>) \o <<":", QUOTE, "a">>
CutInInnerObject == <<"{">> \o Str(<<"a">>) \o <<":", "[", "{">> \o Str(<<"b">>) \o <<":", "1">>
NotJSON == <<"a", SPACE, "b">>

Contents ==
    {Absent, <<>>, <<SPACE>>, ValidJSONText, PaddedJSONText, CutInArray, CutInString,
     CutInInnerObject, NotJSON}

\* choices[0]: finish_reason, message.refusal (absent, "" or a text), message.content
Responses ==
    [finish_reason : {"stop", "length", "absent"},
     refusal : {"absent", "empty", "text"},
     content : Contents]

NoCompletion == [finish_reason |-> "absent", refusal |-> "absent", content |-> Absent]

\* mutant: the content is not trimmed before it is compared with ''
BlankUntrimmed(content) == content = Absent \/ content = <<>>

\* !content || content.trim() === ''
Blank(content) == content = Absent \/ content = <<>> \/ Trim(content) = <<>>

NoError == [name |-> "none", n |-> 0]
\* the error the n-th HTTP call of the function rejected with
HttpError(n) == [name |-> "http", n |-> n]
Failure(name) == [name |-> name, n |-> 0]

NoResult == [kind |-> "none", err |-> NoError, json |-> FALSE, text |-> <<>>, keys |-> {}]
Thrown(err) == [kind |-> "throw", err |-> err, json |-> FALSE, text |-> <<>>, keys |-> {}]
ReturnedText(text) ==
    [kind |-> "value", err |-> NoError, json |-> FALSE, text |-> text, keys |-> {}]
ReturnedJSON(p) ==
    [kind |-> "value", err |-> NoError, json |-> TRUE, text |-> p.text, keys |-> p.keys]
ReturnedUndefined ==
    [kind |-> "undefined", err |-> NoError, json |-> FALSE, text |-> <<>>, keys |-> {}]

\* mutant: the empty-content check comes before the refusal check
ClassifyCompletionEmptyFirst(c) ==
    IF Blank(c.content)
    THEN IF c.finish_reason = "length" THEN Thrown(Failure("truncated"))
         ELSE Thrown(Failure("empty"))
    ELSE IF c.refusal = "text" THEN Thrown(Failure("refused"))
    ELSE ReturnedText(c.content)

\* generateCompletion, from the response on
ClassifyCompletion(c) ==
    IF c.refusal = "text" THEN Thrown(Failure("refused"))
    ELSE IF Blank(c.content)
         THEN IF c.finish_reason = "length" THEN Thrown(Failure("truncated"))
              ELSE Thrown(Failure("empty"))
    ELSE ReturnedText(c.content)

\* mutant: the doubled budget is not capped
NextBudgetUncapped(budget) == budget * 2

\* maxTokens = Math.min(maxTokens * 2, 16000)
NextBudget(budget) == Min(budget * 2, TokenCeiling)

\* the content is a complete JSON text as it stands
IsCompleteJSON(content) == content # Absent /\ JSONparse(content).ok

\* the text generateJSON hands to JSON.parse
JsonStr(c) ==
    IF c.finish_reason = "length" THEN repairTruncatedJSON(c.content) ELSE c.content

\* mutant: a text that does not parse is returned as it is
ParseOrFailLenient(c, att, budget) ==
    LET p == JSONparse(JsonStr(c))
    IN [retry |-> FALSE, maxTokens |-> budget, step |-> "parse",
        result |-> ReturnedJSON([ok |-> p.ok, text |-> Trim(JsonStr(c)), keys |-> p.keys])]

\* mutant: the catch block retries a truncated response whatever the attempt
ParseOrFailAlwaysRetry(c, att, budget) ==
    LET p == JSONparse(JsonStr(c))
    IN IF p.ok
       THEN [retry |-> FALSE, maxTokens |-> budget, step |-> "parse",
             result |-> ReturnedJSON(p)]
       ELSE IF c.finish_reason = "length"
            THEN [retry |-> TRUE, maxTokens |-> NextBudget(budget), step |-> "parse_retry",
                  result |-> NoResult]
            ELSE [retry |-> FALSE, maxTokens |-> budget, step |-> "parse",
                  result |-> Thrown(Failure("invalid_json"))]

\* the try/catch around JSON.parse(jsonStr); step tells what was done with the
\* response: parsed, or parsed and then sent again by the catch block
ParseOrFail(c, att, budget) ==
    LET p == JSONparse(JsonStr(c))
    IN IF p.ok
       THEN [retry |-> FALSE, maxTokens |-> budget, step |-> "parse",
             result |-> ReturnedJSON(p)]
       ELSE IF c.finish_reason = "length" /\ att < maxRetries
            THEN [retry |-> TRUE, maxTokens |-> NextBudget(budget), step |-> "parse_retry",
                  result |-> NoResult]
            ELSE [retry |-> FALSE, maxTokens |-> budget, step |-> "parse",
                  result |-> Thrown(Failure("invalid_json"))]

\* mutant: a response is parsed whatever its finish_reason, and a truncated one
\* is only sent again when it does not parse
JSONDecisionParseFirst(c, att, budget) ==
    IF Blank(c.content)
    THEN IF c.finish_reason = "length"
         THEN [retry |-> FALSE, maxTokens |-> budget, step |-> "empty",
               result |-> Thrown(Failure("json_truncated"))]
         ELSE [retry |-> FALSE, maxTokens |-> budget, step |-> "empty",
               result |-> Thrown(Failure("json_empty"))]
    ELSE ParseOrFail(c, att, budget)

\* one iteration of generateJSON's loop, from the response on: retry with a larger
\* budget, or the outcome of the call
JSONDecision(c, att, budget) ==
    IF c.finish_reason = "length" /\ att < maxRetries
    THEN [retry |-> TRUE, maxTokens |-> NextBudget(budget), step |-> "length_retry",
          result |-> NoResult]
    ELSE IF Blank(c.content)
         THEN IF c.finish_reason = "length"
              THEN [retry |-> FALSE, maxTokens |-> budget, step |-> "empty",
                    result |-> Thrown(Failure("json_truncated"))]
              ELSE [retry |-> FALSE, maxTokens |-> budget, step |-> "empty",
                    result |-> Thrown(Failure("json_empty"))]
    ELSE ParseOrFail(c, att, budget)

ClientIdle ==
    /\ fnKind = "none"
    /\ maxTokens = 0
    /\ attempt = 0
    /\ i = 0
    /\ lastError = NoError
    /\ outcomes = <<>>
    /\ waits = <<>>
    /\ httpCalls = 0
    /\ budgets = <<>>
    /\ finishes = <<>>
    /\ completion = NoCompletion
    /\ pc = "idle"
    /\ result = NoResult
    /\ trail = <<>>

\* a call of generateCompletion or generateJSON, options.maxTokens given or not
ClientInit ==
    /\ fnKind \in {"completion", "json"}
    /\ maxTokens \in TokenOptions \cup
           {IF fnKind = "completion" THEN DefaultCompletionMaxTokens
            ELSE DefaultJSONMaxTokens}
    /\ attempt = 0
    /\ i = 0
    /\ lastError = NoError
    /\ outcomes = <<>>
    /\ waits = <<>>
    /\ httpCalls = 0
    /\ budgets = <<>>
    /\ finishes = <<>>
    /\ completion = NoCompletion
    /\ pc = "request"
    /\ result = NoResult
    /\ trail = <<>>

\* the params are built and retryWithBackoff is entered; generateJSON's loop ends
\* without a value once attempt exceeds maxRetries
SendRequest ==
    /\ pc = "request"
    /\ IF fnKind = "json" /\ attempt > maxRetries
       THEN /\ result' = ReturnedUndefined
            /\ pc' = "done"
            /\ UNCHANGED <<budgets, i, outcomes, waits>>
       ELSE /\ budgets' = Append(budgets, maxTokens)
            /\ i' = 0
            /\ outcomes' = <<>>
            /\ waits' = <<>>
            /\ pc' = "fn"
            /\ UNCHANGED result
    /\ UNCHANGED <<fnKind, maxTokens, attempt, lastError, httpCalls, finishes, completion,
                   trail>>
    /\ UNCHANGED exceptClient

\* fn() resolves: retryWithBackoff returns the response
FnSucceeds ==
    /\ pc = "fn"
    /\ \E r \in Responses : completion' = r /\ finishes' = Append(finishes, r.finish_reason)
    /\ outcomes' = Append(outcomes, "ok")
    /\ httpCalls' = httpCalls + 1
    /\ pc' = "response"
    /\ UNCHANGED <<fnKind, maxTokens, attempt, i, lastError, waits, budgets, result,
                   trail>>
    /\ UNCHANGED exceptClient

\* fn() rejects: the error is kept, and a wait follows unless this was the last try
FnFails ==
    /\ pc = "fn"
    /\ outcomes' = Append(outcomes, "fail")
    /\ httpCalls' = httpCalls + 1
    /\ lastError' = HttpError(httpCalls + 1)
    /\ IF WaitsAfterFailure(i, BackoffMaxRetries)
       THEN pc' = "sleep" /\ i' = i
       ELSE pc' = "rethrow" /\ i' = i + 1
    /\ UNCHANGED <<fnKind, maxTokens, attempt, waits, budgets, finishes, completion, result,
                   trail>>
    /\ UNCHANGED exceptClient

\* await sleep(delay), then the next iteration
Sleep ==
    /\ pc = "sleep"
    /\ waits' = Append(waits, BackoffDelay(BackoffInitialDelay, i))
    /\ i' = i + 1
    /\ pc' = "fn"
    /\ UNCHANGED <<fnKind, maxTokens, attempt, lastError, outcomes, httpCalls, budgets,
                   finishes, completion, result,
                   trail>>
    /\ UNCHANGED exceptClient

\* throw lastError, which the function does not catch
Rethrow ==
    /\ pc = "rethrow"
    /\ result' = Thrown(lastError)
    /\ pc' = "done"
    /\ UNCHANGED <<fnKind, maxTokens, attempt, i, lastError, outcomes, waits, httpCalls,
                   budgets, finishes, completion,
                   trail>>
    /\ UNCHANGED exceptClient

CompletionResponse ==
    /\ pc = "response"
    /\ fnKind = "completion"
    /\ result' = ClassifyCompletion(completion)
    /\ pc' = "done"
    /\ UNCHANGED <<fnKind, maxTokens, attempt, i, lastError, outcomes, waits, httpCalls,
                   budgets, finishes, completion,
                   trail>>
    /\ UNCHANGED exceptClient

JSONResponse ==
    /\ pc = "response"
    /\ fnKind = "json"
    /\ LET d == JSONDecision(completion, attempt, maxTokens)
       IN /\ trail' = Append(trail, [attempt |-> attempt, step |-> d.step,
                                     finish_reason |-> completion.finish_reason,
                                     complete |-> IsCompleteJSON(completion.content)])
          /\ IF d.retry
             THEN /\ maxTokens' = d.maxTokens
                  /\ attempt' = attempt + 1
                  /\ completion' = NoCompletion
                  /\ pc' = "request"
                  /\ UNCHANGED result
             ELSE /\ result' = d.result
                  /\ pc' = "done"
                  /\ UNCHANGED <<maxTokens, attempt, completion>>
    /\ UNCHANGED <<fnKind, i, lastError, outcomes, waits, httpCalls, budgets, finishes>>
    /\ UNCHANGED exceptClient

ClientNext ==
    \/ SendRequest
    \/ FnSucceeds
    \/ FnFails
    \/ Sleep
    \/ Rethrow
    \/ CompletionResponse
    \/ JSONResponse

----------------------------------------------------------------------------
(* The translator (generators/translator.js) *)

SUPPORTED_LOCALES == <<"fr", "en", "es">>

MaxTargets == 2

\* a slot no value was written to, or a key the payload lacks
Undefined == <<"undefined">>

TextUnits == {"content", "title", "excerpt"}

\* the articles handed to generateMultilingualArticle: one with every text, one
\* whose excerpt is blank
Articles ==
    {[title |-> <<"T">>, excerpt |-> e, content |-> <<"C", SPACE, "c">>,
      seo |-> [metaTitle |-> <<"M">>, metaDescription |-> <<"D">>, keywords |-> <<"K">>]] :
        e \in {<<"E">>, <<SPACE>>}}

Range(q) == {q[k] : k \in 1..Len(q)}

NoRepeat(q) == \A a, b \in 1..Len(q) : q[a] = q[b] => a = b

\* targetLocales || SUPPORTED_LOCALES.filter(l => l !== sourceLocale)
TargetsOf(targetLocales, source) ==
    IF targetLocales = <<"null">>
    THEN SelectSeq(SUPPORTED_LOCALES, LAMBDA l : l # source)
    ELSE targetLocales

\* the text the model answers with when asked to translate text into locale
Translation(text, locale) == <<SPACE, locale, ":">> \o text \o <<SPACE>>

\* mutant: only a blank text is returned as it is
TextIsReturnedAsIsWhenBlank(text, targetLocale, source) == Trim(text) = <<>>

\* translateText returns its input, without a request, for a blank text or when the
\* target is the source locale
TextIsReturnedAsIs(text, targetLocale, source) ==
    text = <<>> \/ Trim(text) = <<>> \/ targetLocale = source

\* translateText, once generateCompletion has returned translated
translateText(text, targetLocale, source) ==
    IF TextIsReturnedAsIs(text, targetLocale, source) THEN text
    ELSE Trim(Translation(text, targetLocale))

FieldOf(art, unit) ==
    IF unit = "content" THEN art.content
    ELSE IF unit = "title" THEN art.title
    ELSE art.excerpt

\* what generateJSON may return to translateSEO: all the keys, or some of them
SEOPayloads(seo, locale) ==
    {[metaTitle |-> Translation(seo.metaTitle, locale),
      metaDescription |-> Translation(seo.metaDescription, locale),
      keywords |-> Translation(seo.keywords, locale)],
     [metaTitle |-> Translation(seo.metaTitle, locale),
      metaDescription |-> Undefined,
      keywords |-> Undefined]}

Pending == [state |-> "pending", value |-> <<>>]
NoSEO == [metaTitle |-> <<>>, metaDescription |-> <<>>, keywords |-> <<>>]

\* the four calls translateArticleToLocale starts for one target
StartTextCall(art, unit, targetLocale, source) ==
    IF TextIsReturnedAsIs(FieldOf(art, unit), targetLocale, source)
    THEN [state |-> "ok", value |-> FieldOf(art, unit)]
    ELSE Pending

StartSEOCall(art, targetLocale, source) ==
    IF targetLocale = source THEN [state |-> "ok", value |-> art.seo, caught |-> FALSE]
    ELSE [state |-> "pending", value |-> NoSEO, caught |-> FALSE]

\* mutant: the catch block of translateSEO returns an empty object
SEOFallbackEmpty(seo) ==
    [metaTitle |-> Undefined, metaDescription |-> Undefined, keywords |-> Undefined]

\* catch (e) { ...; return seo; }
SEOFallback(seo) == seo

\* mutant: the SEO request of a locale waits for the three texts of that locale
RequestsOfTextsFirst(art, targetLocale, source) ==
    Cardinality({u \in TextUnits :
                    ~TextIsReturnedAsIs(FieldOf(art, u), targetLocale, source)})

\* the completion requests the four calls of one target issue before their first await
RequestsOf(art, targetLocale, source) ==
    Cardinality({u \in TextUnits :
                    ~TextIsReturnedAsIs(FieldOf(art, u), targetLocale, source)})
    + (IF targetLocale = source THEN 0 ELSE 1)

RECURSIVE SumOver(_, _)
SumOver(f, k) == IF k = 0 THEN 0 ELSE f[k] + SumOver(f, k - 1)

Unsettled == [settled |-> FALSE, rejected |-> FALSE, fulfilled |-> FALSE]

\* mutant: the callback has no try/catch, so a failed call rejects its promise
SettleLocaleUncaught(texts, seo) ==
    IF \E u \in TextUnits : texts[u].state = "fail"
    THEN [settled |-> TRUE, rejected |-> TRUE, fulfilled |-> FALSE]
    ELSE [settled |-> TRUE, rejected |-> FALSE, fulfilled |-> TRUE]

\* the callback of locales.map once Promise.all of the four calls has settled:
\* { locale, result, error: null } or, from the catch, { locale, result: null, error }
SettleLocale(texts, seo) ==
    IF \E u \in TextUnits : texts[u].state = "fail"
    THEN [settled |-> TRUE, rejected |-> FALSE, fulfilled |-> FALSE]
    ELSE [settled |-> TRUE, rejected |-> FALSE, fulfilled |-> TRUE]

\* Promise.all of the four calls has settled: one rejected, or all fulfilled
AllSettled(texts, seo) ==
    \/ \E u \in TextUnits : texts[u].state = "fail"
    \/ (\A u \in TextUnits : texts[u].state = "ok") /\ seo.state = "ok"

Slots(title, excerpt, content, seo) ==
    [title |-> title, excerpt |-> excerpt, content |-> content,
     metaTitle |-> seo.metaTitle, metaDescription |-> seo.metaDescription,
     keywords |-> seo.keywords]

\* mutant: the fields whose calls succeeded are kept, the others fall back
LocaleSlotsPerField(art, res, texts, seo) ==
    Slots(IF texts["title"].state = "ok" THEN texts["title"].value ELSE art.title,
          IF texts["excerpt"].state = "ok" THEN texts["excerpt"].value ELSE art.excerpt,
          IF texts["content"].state = "ok" THEN texts["content"].value ELSE art.content,
          IF seo.state = "ok" THEN seo.value ELSE art.seo)

\* the body of the assembling loop for one entry of results
LocaleSlots(art, res, texts, seo) ==
    IF res.fulfilled
    THEN Slots(texts["title"].value, texts["excerpt"].value, texts["content"].value,
               seo.value)
    ELSE Slots(art.title, art.excerpt, art.content, art.seo)

SlotNames == {"title", "excerpt", "content", "metaTitle", "metaDescription", "keywords"}

\* the locale-keyed fields right after construction: the source locale only
Seeded(art, source) ==
    LET own == Slots(art.title, art.excerpt, art.content, art.seo)
    IN [f \in SlotNames |-> [l \in {source} |-> own[f]]]

\* multilingualArticle.<field>[locale] = value, for every field
WriteLocale(ma, locale, slots) ==
    [f \in SlotNames |->
        [l \in DOMAIN ma[f] \cup {locale} |-> IF l = locale THEN slots[f] ELSE ma[f][l]]]

\* for (const { locale, result, error } of results), from entry k on
RECURSIVE AssembleFrom(_, _, _, _, _)
AssembleFrom(ma, k, rs, texts, seos) ==
    IF k > Len(locales) THEN ma
    ELSE AssembleFrom(
             WriteLocale(ma, locales[k], LocaleSlots(article, rs[k], texts[k], seos[k])),
             k + 1, rs, texts, seos)

\* the promise of one target, given the state of its four calls
SettledBy(res, texts, seo) ==
    IF ~res.settled /\ AllSettled(texts, seo) THEN SettleLocale(texts, seo) ELSE res

\* What runs, before any other response is handled, once calls have completed and
\* left the calls as texts and seos: the promises of the targets whose Promise.all
\* has settled settle; then, if generateMultilingualArticle is still waiting, it
\* throws when one of them is rejected, and runs its loop over results and returns
\* when all of them are settled.
NextResults(rs, texts, seos) ==
    [k \in 1..Len(locales) |-> SettledBy(rs[k], texts[k], seos[k])]

NextPc(cur, rs) ==
    IF cur # "awaiting" THEN cur
    ELSE IF \E k \in 1..Len(locales) : rs[k].rejected THEN "thrown"
    ELSE IF \A k \in 1..Len(locales) : rs[k].settled THEN "done"
    ELSE "awaiting"

NextArticle(cur, ma, rs, texts, seos) ==
    IF cur = "awaiting" /\ NextPc(cur, rs) = "done"
    THEN AssembleFrom(ma, 1, rs, texts, seos)
    ELSE ma

NoArticle == [f \in SlotNames |-> << >>]

TranslatorIdle ==
    /\ article = [title |-> <<>>, excerpt |-> <<>>, content |-> <<>>, seo |-> NoSEO]
    /\ sourceLocale = "none"
    /\ locales = <<>>
    /\ textCalls = <<>>
    /\ seoCalls = <<>>
    /\ requests = 0
    /\ results = <<>>
    /\ multilingualArticle = NoArticle
    /\ tpc = "idle"

\* generateMultilingualArticle(article, sourceLocale, targetLocales)
TranslatorInit ==
    /\ article \in Articles
    /\ sourceLocale \in Range(SUPPORTED_LOCALES)
    /\ \E targetLocales \in
            {<<"null">>} \cup
            {q \in UNION {[1..n -> Range(SUPPORTED_LOCALES)] : n \in 0..MaxTargets} :
                NoRepeat(q)} :
          locales = TargetsOf(targetLocales, sourceLocale)
    /\ textCalls = <<>>
    /\ seoCalls = <<>>
    /\ requests = 0
    /\ results = <<>>
    /\ multilingualArticle = NoArticle
    /\ tpc = "start"

\* the synchronous part: the article is seeded with the source locale and
\* locales.map starts the four calls of every target, up to their first await
StartTranslations ==
    /\ tpc = "start"
    /\ LET texts == [k \in 1..Len(locales) |->
                        [u \in TextUnits |->
                            StartTextCall(article, u, locales[k], sourceLocale)]]
           seos == [k \in 1..Len(locales) |->
                        StartSEOCall(article, locales[k], sourceLocale)]
           rs == NextResults([k \in 1..Len(locales) |-> Unsettled], texts, seos)
       IN /\ textCalls' = texts
          /\ seoCalls' = seos
          /\ results' = rs
          /\ tpc' = NextPc("awaiting", rs)
          /\ multilingualArticle' =
                NextArticle("awaiting", Seeded(article, sourceLocale), rs, texts, seos)
    /\ requests' = SumOver([k \in 1..Len(locales) |->
                               RequestsOf(article, locales[k], sourceLocale)],
                           Len(locales))
    /\ UNCHANGED <<article, sourceLocale, locales>>
    /\ UNCHANGED exceptTranslator

\* a call of one target completes, and what follows from it runs
CallCompletes(texts, seos) ==
    LET rs == NextResults(results, texts, seos)
    IN /\ textCalls' = texts
       /\ seoCalls' = seos
       /\ results' = rs
       /\ tpc' = NextPc(tpc, rs)
       /\ multilingualArticle' = NextArticle(tpc, multilingualArticle, rs, texts, seos)
       /\ UNCHANGED <<article, sourceLocale, locales, requests>>
       /\ UNCHANGED exceptTranslator

\* generateCompletion returns to a translateText call
TextCallReturns ==
    /\ tpc \in {"awaiting", "done", "thrown"}
    /\ \E k \in 1..Len(locales), u \in TextUnits :
          /\ textCalls[k][u].state = "pending"
          /\ CallCompletes(
                 [textCalls EXCEPT ![k][u] =
                     [state |-> "ok",
                      value |-> translateText(FieldOf(article, u), locales[k],
                                              sourceLocale)]],
                 seoCalls)

\* generateCompletion throws in a translateText call
TextCallThrows ==
    /\ tpc \in {"awaiting", "done", "thrown"}
    /\ \E k \in 1..Len(locales), u \in TextUnits :
          /\ textCalls[k][u].state = "pending"
          /\ CallCompletes(
                 [textCalls EXCEPT ![k][u] = [state |-> "fail", value |-> <<>>]],
                 seoCalls)

\* generateJSON returns a payload to a translateSEO call
SEOCallReturns ==
    /\ tpc \in {"awaiting", "done", "thrown"}
    /\ \E k \in 1..Len(locales) :
          /\ seoCalls[k].state = "pending"
          /\ \E payload \in SEOPayloads(article.seo, locales[k]) :
                CallCompletes(
                    textCalls,
                    [seoCalls EXCEPT ![k] =
                        [state |-> "ok", value |-> payload, caught |-> FALSE]])

\* generateJSON throws in a translateSEO call, which catches and returns seo
SEOCallFallsBack ==
    /\ tpc \in {"awaiting", "done", "thrown"}
    /\ \E k \in 1..Len(locales) :
          /\ seoCalls[k].state = "pending"
          /\ CallCompletes(
                 textCalls,
                 [seoCalls EXCEPT ![k] =
                     [state |-> "ok", value |-> SEOFallback(article.seo),
                      caught |-> TRUE]])

TranslatorNext ==
    \/ StartTranslations
    \/ TextCallReturns
    \/ TextCallThrows
    \/ SEOCallReturns
    \/ SEOCallFallsBack

----------------------------------------------------------------------------
(* generateArticle and generateArticleBatch (generators/article.js) *)

MaxTopics == 2

\* the three queries of researchTopicOnline, one fetchWebSearch call each
SearchQueries == 3
\* the pause between two generations of a batch, in ms
BatchPause == 5000

\* What generateArticle is given: a topic string, a topic object without sections,
\* an outline object with sections, or an outline object whose sections is []
Inputs ==
    {[kind |-> "string", hasSections |-> FALSE, sections |-> 0],
     [kind |-> "object", hasSections |-> FALSE, sections |-> 0],
     [kind |-> "object", hasSections |-> TRUE, sections |-> 2],
     [kind |-> "object", hasSections |-> TRUE, sections |-> 0]}

\* the sections of the JSON the planner receives: none (missing or []), or some
PlannerSections == {0, 2}

Stages == <<"research", "planning", "writing", "post", "seo", "assembly">>

Start(stage) == [ev |-> "start", stage |-> stage]
End(stage) == [ev |-> "end", stage |-> stage]

NoOutline == [sections |-> 0, planned |-> FALSE]
NoErr == [stage |-> "none", topic |-> 0, name |-> "none"]
NoArt == [topic |-> 0, sections |-> 0, researched |-> FALSE]

\* typeof input === 'string' || !input.sections
NeedsPlanning(input) == input.kind = "string" \/ ~input.hasSections

\* the stage that follows the (optional) research
AfterResearch(input) == IF NeedsPlanning(input) THEN "planning" ELSE "writing"

\* mutant: the research runs whatever the option says
FirstStageAlwaysResearch(input, research) == "research"

\* if (options.researchOnline) { ... researchTopicOnline ... }
FirstStage(input, research) == IF research THEN "research" ELSE AfterResearch(input)

\* if (!result.sections || result.sections.length === 0) throw
PlanIsValid(sections) == sections > 0

\* mutant: the catch block returns what it has instead of rethrowing
OutcomeOnErrorSwallowed(err, idx) ==
    [kind |-> "value", err |-> NoErr,
     article |-> [topic |-> idx, sections |-> 0, researched |-> FALSE]]

\* catch (error) { logger.error(...); throw error; }
OutcomeOnError(err, idx) == [kind |-> "throw", err |-> err, article |-> NoArt]

\* return article
OutcomeOnSuccess(art) == [kind |-> "value", err |-> NoErr, article |-> art]

\* error.message, which the batch records
Message(err) == <<err.stage, err.name>>

\* mutant: the first failure ends the batch
IndexAfterErrorAborting(idx, n) == n + 1

\* the loop index after the catch block of the batch
IndexAfterError(idx, n) == idx + 1

\* if (i < topics.length - 1): a pause follows the article just pushed
PauseFollows(idx, n) == idx < n

BatchIdle ==
    /\ topics = <<>>
    /\ researchOnline = FALSE
    /\ bi = 0
    /\ articles = <<>>
    /\ errors = <<>>
    /\ batchLog = <<>>
    /\ bpc = "idle"
    /\ gstage = "none"
    /\ glog = <<>>
    /\ onlineContext = FALSE
    /\ outline = NoOutline
    /\ finished = <<>>
    /\ searches = 0

\* generateArticleBatch(topics, options)
BatchInit ==
    /\ topics \in UNION {[1..n -> Inputs] : n \in 0..MaxTopics}
    /\ researchOnline \in BOOLEAN
    /\ bi = 0
    /\ articles = <<>>
    /\ errors = <<>>
    /\ batchLog = <<>>
    /\ bpc = "entry"
    /\ gstage = "none"
    /\ glog = <<>>
    /\ onlineContext = FALSE
    /\ outline = NoOutline
    /\ finished = <<>>
    /\ searches = 0

\* The top of the for loop with i = idx: generateArticle(topics[idx]) runs up to its
\* first await (the first stage is started), or the loop is over and the batch
\* returns { articles, errors }.
LoopTo(idx, arts, errs, log, fin) ==
    /\ bi' = idx
    /\ articles' = arts
    /\ errors' = errs
    /\ finished' = fin
    /\ IF idx <= Len(topics)
       THEN LET first == FirstStage(topics[idx], researchOnline)
            IN /\ bpc' = "generating"
               /\ batchLog' = Append(log, [ev |-> "begin", topic |-> idx, ms |-> 0])
               /\ gstage' = first
               /\ glog' = <<Start(first)>>
               /\ onlineContext' = FALSE
               /\ outline' = IF NeedsPlanning(topics[idx]) THEN NoOutline
                             ELSE [sections |-> topics[idx].sections, planned |-> FALSE]
               /\ searches' = searches + (IF first = "research" THEN SearchQueries ELSE 0)
       ELSE /\ bpc' = "returned"
            /\ batchLog' = log
            /\ gstage' = "none"
            /\ glog' = <<>>
            /\ UNCHANGED <<onlineContext, outline, searches>>
    /\ UNCHANGED <<topics, researchOnline>>
    /\ UNCHANGED exceptBatch

\* generateArticle threw err after the stages of log: the catch block of the batch
\* records it, and the loop goes on
ArticleFails(err, log) ==
    LET outcome == OutcomeOnError(err, bi)
        over == Append(batchLog, [ev |-> "end", topic |-> bi, ms |-> 0])
        fin == Append(finished,
                      [topic |-> bi, log |-> log, raised |-> err, outcome |-> outcome])
    IN IF outcome.kind = "throw"
       THEN LoopTo(IndexAfterError(bi, Len(topics)), articles,
                   Append(errors, [topic |-> bi, error |-> Message(outcome.err)]), over, fin)
       ELSE IF PauseFollows(bi, Len(topics))
            THEN /\ articles' = Append(articles, outcome.article)
                 /\ finished' = fin
                 /\ batchLog' = Append(over, [ev |-> "pause", topic |-> bi, ms |-> BatchPause])
                 /\ bpc' = "pausing"
                 /\ gstage' = "none"
                 /\ UNCHANGED <<topics, researchOnline, bi, errors, glog, onlineContext,
                                outline, searches>>
                 /\ UNCHANGED exceptBatch
            ELSE LoopTo(bi + 1, Append(articles, outcome.article), errors, over, fin)

BatchStart ==
    /\ bpc = "entry"
    /\ LoopTo(1, <<>>, <<>>, <<>>, <<>>)

\* researchTopicOnline returns (it catches the errors of its searches); the next
\* stage is started
ResearchReturns ==
    /\ bpc = "generating"
    /\ gstage = "research"
    /\ \E hasRecentData \in BOOLEAN : onlineContext' = hasRecentData
    /\ gstage' = AfterResearch(topics[bi])
    /\ glog' = glog \o <<End("research"), Start(AfterResearch(topics[bi]))>>
    /\ UNCHANGED <<topics, researchOnline, bi, articles, errors, batchLog, bpc, outline,
                   finished, searches>>
    /\ UNCHANGED exceptBatch

\* generateJSON returns to researchTopicAndOutline, which validates the sections
PlanningReturns ==
    /\ bpc = "generating"
    /\ gstage = "planning"
    /\ \E sections \in PlannerSections :
          IF PlanIsValid(sections)
          THEN /\ outline' = [sections |-> sections, planned |-> TRUE]
               /\ gstage' = "writing"
               /\ glog' = glog \o <<End("planning"), Start("writing")>>
               /\ UNCHANGED <<topics, researchOnline, bi, articles, errors, batchLog, bpc,
                              onlineContext, finished, searches>>
               /\ UNCHANGED exceptBatch
          ELSE ArticleFails([stage |-> "planning", topic |-> bi,
                             name |-> "invalid_outline"], glog)

\* generateCompletion returns to generateContent; post-processing runs at once and
\* generateSEO is called
WritingReturns ==
    /\ bpc = "generating"
    /\ gstage = "writing"
    /\ gstage' = "seo"
    /\ glog' = glog \o <<End("writing"), Start("post"), End("post"), Start("seo")>>
    /\ UNCHANGED <<topics, researchOnline, bi, articles, errors, batchLog, bpc,
                   onlineContext, outline, finished, searches>>
    /\ UNCHANGED exceptBatch

\* generateJSON returns to generateSEO; the article is assembled and returned, the
\* batch pushes it and pauses unless it was the last topic
SEOReturns ==
    /\ bpc = "generating"
    /\ gstage = "seo"
    /\ LET log == glog \o <<End("seo"), Start("assembly"), End("assembly")>>
           art == [topic |-> bi, sections |-> outline.sections,
                   researched |-> onlineContext]
           over == Append(batchLog, [ev |-> "end", topic |-> bi, ms |-> 0])
           fin == Append(finished,
                         [topic |-> bi, log |-> log, raised |-> NoErr,
                          outcome |-> OutcomeOnSuccess(art)])
       IN IF PauseFollows(bi, Len(topics))
          THEN /\ articles' = Append(articles, art)
               /\ finished' = fin
               /\ batchLog' = Append(over, [ev |-> "pause", topic |-> bi, ms |-> BatchPause])
               /\ bpc' = "pausing"
               /\ gstage' = "none"
               /\ glog' = log
               /\ UNCHANGED <<topics, researchOnline, bi, errors, onlineContext, outline,
                              searches>>
               /\ UNCHANGED exceptBatch
          ELSE LoopTo(bi + 1, Append(articles, art), errors, over, fin)

\* the completion call of the planning, writing or SEO stage throws
StageThrows ==
    /\ bpc = "generating"
    /\ gstage \in {"planning", "writing", "seo"}
    /\ ArticleFails([stage |-> gstage, topic |-> bi, name |-> "client"], glog)

\* the pause is over: the next iteration
PauseEnds ==
    /\ bpc = "pausing"
    /\ LoopTo(bi + 1, articles, errors, batchLog, finished)

BatchNext ==
    \/ BatchStart
    \/ ResearchReturns
    \/ PlanningReturns
    \/ WritingReturns
    \/ SEOReturns
    \/ StageThrows
    \/ PauseEnds

----------------------------------------------------------------------------
(* saveArticle (index.js, cron.js), generateUniqueSlug and createPost
   (services/database.js) *)

MaxSaves == 2

Null == <<"null">>

\* the values an option or a flag is given: absent, false, true
FlagValues == {"undefined", "false", "true"}

\* JavaScript truthiness of a flag
Truthy(flag) == flag = "true"

\* publish = false in the parameter list: the default replaces undefined only
PublishParameter(flag) == IF flag = "undefined" THEN "false" ELSE flag

RECURSIVE DecimalString(_)
\* the decimal digits of a natural number
DecimalString(n) ==
    LET digits == <<"0", "1", "2", "3", "4", "5", "6", "7", "8", "9">>
    IN IF n < 10 THEN <<digits[n + 1]>>
       ELSE DecimalString(n \div 10) \o <<digits[(n % 10) + 1]>>

\* mutant: the counter is appended without the dash
CandidateNoDash(baseSlug, k) == baseSlug \o DecimalString(k)

\* `${baseSlug}-${counter}`
Candidate(baseSlug, k) == baseSlug \o <<"-">> \o DecimalString(k)

\* the slugs of the generated articles
BaseSlugs == {<<"f">>, <<"f", "-", "1">>}

\* the slugs the collection may hold before the program runs
StoredSlugs ==
    {<<"f">>, <<"f", "-", "1">>, <<"f", "-", "2">>, <<"f", "-", "1", "-", "1">>, <<"g">>}

\* status and publishedAt of the article generateArticle assembles
AssembledStatus(autoPublish) ==
    [status |-> IF Truthy(autoPublish) THEN "published" ELSE "draft",
     publishedAt |-> IF Truthy(autoPublish) THEN <<"iso">> ELSE Null]

\* mutant: the spread article keeps its own publishedAt
PostDataKeepsDate(art, unique, flag) ==
    [slug |-> unique,
     status |-> IF Truthy(flag) THEN "published" ELSE "draft",
     publishedAt |-> art.publishedAt]

\* { ...article, slug: uniqueSlug, status: publish ? 'published' : 'draft',
\*   publishedAt: publish ? new Date() : null }
PostData(art, unique, flag) ==
    [slug |-> unique,
     status |-> IF Truthy(flag) THEN "published" ELSE "draft",
     publishedAt |-> IF Truthy(flag) THEN <<"date">> ELSE Null]

NoGenerated == [slug |-> <<>>, status |-> "draft", publishedAt |-> Null]

SaveIdle ==
    /\ store = {}
    /\ program = "none"
    /\ generated = NoGenerated
    /\ publish = "false"
    /\ multilingual = FALSE
    /\ dryRun = FALSE
    /\ slug = <<>>
    /\ counter = 0
    /\ probes = <<>>
    /\ uniqueSlug = <<>>
    /\ handed = <<>>
    /\ spc = "idle"

SaveInit ==
    /\ store \in SUBSET StoredSlugs
    /\ program \in {"cli", "cron"}
    /\ generated = NoGenerated
    /\ publish = "false"
    /\ multilingual = FALSE
    /\ dryRun = FALSE
    /\ slug = <<>>
    /\ counter = 0
    /\ probes = <<>>
    /\ uniqueSlug = <<>>
    /\ handed = <<>>
    /\ spc = "idle"

\* generateArticle returns an article to the program
ArticleGenerated ==
    /\ spc = "idle"
    /\ Len(handed) < MaxSaves
    /\ \E base \in BaseSlugs, autoPublish \in FlagValues :
          /\ program = "cron" => autoPublish = "undefined"
          /\ generated' = [slug |-> base] @@ AssembledStatus(autoPublish)
    /\ spc' = "generated"
    /\ UNCHANGED <<store, program, publish, multilingual, dryRun, slug, counter, probes,
                   uniqueSlug, handed>>
    /\ UNCHANGED exceptSave

\* saveArticle is called and runs up to the first slugExists of generateUniqueSlug;
\* the cron returns at once on a dry run
SaveArticle ==
    /\ spc = "generated"
    /\ \E flag \in FlagValues, multi \in BOOLEAN, dry \in BOOLEAN :
          /\ program = "cli" => ~dry
          /\ publish' = IF program = "cli" THEN PublishParameter(flag) ELSE flag
          /\ multilingual' = multi
          /\ dryRun' = dry
          /\ IF dry
             THEN /\ spc' = "idle"
                  /\ UNCHANGED <<slug, counter, probes>>
             ELSE /\ spc' = "probing"
                  /\ slug' = generated.slug
                  /\ counter' = 1
                  /\ probes' = <<>>
    /\ UNCHANGED <<store, program, generated, uniqueSlug, handed>>
    /\ UNCHANGED exceptSave

\* slugExists(slug) answers true: the next candidate
SlugIsTaken ==
    /\ spc = "probing"
    /\ slug \in store
    /\ probes' = Append(probes, [slug |-> slug, exists |-> TRUE])
    /\ slug' = Candidate(generated.slug, counter)
    /\ counter' = counter + 1
    /\ UNCHANGED <<store, program, generated, publish, multilingual, dryRun, uniqueSlug,
                   handed, spc>>
    /\ UNCHANGED exceptSave

\* slugExists(slug) answers false: generateUniqueSlug returns slug
SlugIsFree ==
    /\ spc = "probing"
    /\ slug \notin store
    /\ probes' = Append(probes, [slug |-> slug, exists |-> FALSE])
    /\ uniqueSlug' = slug
    /\ spc' = "unique"
    /\ UNCHANGED <<store, program, generated, publish, multilingual, dryRun, slug, counter,
                   handed>>
    /\ UNCHANGED exceptSave

\* the document is built (translated first when multilingual) and handed to
\* createPost, which inserts it
CreatePost ==
    /\ spc = "unique"
    /\ LET postData == PostData(generated, uniqueSlug, publish)
       IN /\ handed' = Append(handed, postData)
          /\ store' = store \cup {postData.slug}
    /\ spc' = "idle"
    /\ UNCHANGED <<program, generated, publish, multilingual, dryRun, slug, counter, probes,
                   uniqueSlug>>
    /\ UNCHANGED exceptSave

SaveNext ==
    \/ ArticleGenerated
    \/ SaveArticle
    \/ SlugIsTaken
    \/ SlugIsFree
    \/ CreatePost

----------------------------------------------------------------------------
(* The search aggregator (services/trends.js) *)

MaxQueries == 2

\* the backends in the order fetchWebSearch tries them
Backends == <<"brave", "serper", "news">>

\* getTrendingTopics: searchQueries.slice(0, 3) go to fetchWebSearch and
\* searchQueries.slice(0, 2) to fetchNewsAPITrends
TrendingWebQueries == 3
TrendingNewsQueries == 2
\* researchTopicOnline: uniqueResults.slice(0, 8)
ResearchMaxSources == 8

\* what a backend request ends with
BackendOutcomes == {"results", "empty", "network", "http"}

\* mutant: the keys are not looked at
NextBackendUnchecked(creds, after) ==
    IF after < Len(Backends) THEN after + 1 ELSE 0

\* the next backend after position after whose key is set; 0 when there is none
NextBackend(creds, after) ==
    IF \E j \in (after + 1)..Len(Backends) : Backends[j] \in creds
    THEN CHOOSE j \in (after + 1)..Len(Backends) :
            /\ Backends[j] \in creds
            /\ \A m \in (after + 1)..(j - 1) : Backends[m] \notin creds
    ELSE 0

\* mutant: the fetch function of a backend has no try/catch
BackendReturnUncaught(outcome, b) ==
    [threw |-> outcome \in {"network", "http"},
     list |-> IF outcome = "results" THEN <<[backend |-> Backends[b]]>> ELSE <<>>]

\* what fetchBraveSearchTrends / fetchSerperTrends / fetchNewsAPITrends give back:
\* the mapped results, or [] from the catch block
BackendReturn(outcome, b) ==
    [threw |-> FALSE,
     list |-> IF outcome = "results" THEN <<[backend |-> Backends[b]]>> ELSE <<>>]

\* what the history of a call keeps of an outcome
OutcomeLabel(outcome) == IF outcome \in {"network", "http"} THEN "error" ELSE outcome

\* fetchWebSearch up to its first request; it returns [] at once without any key
NewWebCall(creds) ==
    [kind |-> "web", waiting |-> NextBackend(creds, 0), queried |-> <<>>,
     done |-> NextBackend(creds, 0) = 0, threw |-> FALSE, result |-> <<>>]

\* fetchNewsAPITrends called directly by getTrendingTopics
NewNewsCall ==
    [kind |-> "news", waiting |-> 3, queried |-> <<>>, done |-> FALSE, threw |-> FALSE,
     result |-> <<>>]

\* the call once the backend it is waiting for has ended with outcome
AfterBackend(call, outcome, creds) ==
    LET ret == BackendReturn(outcome, call.waiting)
        hist == Append(call.queried, [backend |-> Backends[call.waiting],
                                      outcome |-> OutcomeLabel(outcome)])
        next == NextBackend(creds, call.waiting)
    IN IF ret.threw
       THEN [call EXCEPT !.waiting = 0, !.queried = hist, !.done = TRUE, !.threw = TRUE]
       ELSE IF call.kind = "news" \/ Len(ret.list) > 0
            THEN [call EXCEPT !.waiting = 0, !.queried = hist, !.done = TRUE,
                              !.result = ret.list]
            ELSE [call EXCEPT !.waiting = next, !.queried = hist, !.done = (next = 0)]

RECURSIVE Flatten(_, _)
\* the results of the calls from k on, one after the other
Flatten(cs, k) == IF k > Len(cs) THEN <<>> ELSE cs[k].result \o Flatten(cs, k + 1)

RECURSIVE Dedupe(_, _)
\* the items of list whose key (URL or title) was not seen before
Dedupe(list, seen) ==
    IF list = <<>> THEN <<>>
    ELSE IF Head(list) \in seen THEN Dedupe(Tail(list), seen)
         ELSE <<Head(list)>> \o Dedupe(Tail(list), seen \cup {Head(list)})

\* what the operation returns once all its calls have returned
Aggregate(op, cs) ==
    IF op = "fetchWebSearch" THEN cs[1].result
    ELSE IF op = "researchTopicOnline"
         THEN SubSeq(Dedupe(Flatten(cs, 1), {}), 1,
                     Min(ResearchMaxSources, Len(Dedupe(Flatten(cs, 1), {}))))
         ELSE Dedupe(Flatten(cs, 1), {})

\* the await of the operation: it throws with the first call that throws, and goes
\* on when all calls have returned
OperationAfter(cs) ==
    IF \E k \in 1..Len(cs) : cs[k].threw THEN "thrown"
    ELSE IF \A k \in 1..Len(cs) : cs[k].done THEN "done"
         ELSE "awaiting"

SearchIdle ==
    /\ credentials = {}
    /\ operation = "none"
    /\ queries = 0
    /\ calls = <<>>
    /\ found = <<>>
    /\ opc = "idle"

SearchInit ==
    /\ credentials \in SUBSET Range(Backends)
    /\ operation \in {"fetchWebSearch", "researchTopicOnline", "getTrendingTopics"}
    /\ queries \in 1..MaxQueries
    /\ operation = "fetchWebSearch" => queries = 1
    /\ operation = "researchTopicOnline" => queries = 1
    /\ calls = <<>>
    /\ found = <<>>
    /\ opc = "start"

\* the calls the operation starts, each run up to its first request
StartedCalls ==
    IF operation = "fetchWebSearch" THEN <<NewWebCall(credentials)>>
    ELSE IF operation = "researchTopicOnline"
         THEN [k \in 1..SearchQueries |-> NewWebCall(credentials)]
         ELSE [k \in 1..Min(queries, TrendingWebQueries) |-> NewWebCall(credentials)]
              \o (IF "news" \in credentials
                  THEN [k \in 1..Min(queries, TrendingNewsQueries) |-> NewNewsCall]
                  ELSE <<>>)

\* the state of the operation with calls cs
Settle(cs) ==
    /\ calls' = cs
    /\ opc' = IF opc = "thrown" THEN "thrown" ELSE OperationAfter(cs)
    /\ found' = IF opc # "thrown" /\ OperationAfter(cs) = "done"
                THEN Aggregate(operation, cs) ELSE found
    /\ UNCHANGED <<credentials, operation, queries>>
    /\ UNCHANGED exceptSearch

StartSearch ==
    /\ opc = "start"
    /\ Settle(StartedCalls)

\* a backend answers with results or without
BackendAnswers ==
    /\ opc \in {"awaiting", "thrown"}
    /\ \E k \in 1..Len(calls), outcome \in {"results", "empty"} :
          /\ ~calls[k].done
          /\ Settle([calls EXCEPT ![k] = AfterBackend(calls[k], outcome, credentials)])

\* the request to a backend fails (network) or is answered with an HTTP error
BackendFails ==
    /\ opc \in {"awaiting", "thrown"}
    /\ \E k \in 1..Len(calls), outcome \in {"network", "http"} :
          /\ ~calls[k].done
          /\ Settle([calls EXCEPT ![k] = AfterBackend(calls[k], outcome, credentials)])

SearchNext ==
    \/ StartSearch
    \/ BackendAnswers
    \/ BackendFails

----------------------------------------------------------------------------
(* The request parameters (services/openai.js) *)

\* the model names the client is run with
ModelNames ==
    {<<"o", "1">>,
     <<"o", "1", "-", "m", "i", "n", "i">>,
     <<"o", "3", "-", "m", "i", "n", "i">>,
     <<"o", "4", "-", "m", "i", "n", "i">>,
     <<"g", "p", "t", "-", "5">>,
     <<"g", "p", "t", "-", "5", ".", "1">>,
     <<"g", "p", "t", "-", "5", "-", "m", "i", "n", "i">>,
     <<"g", "p", "t", "-", "4", "o">>,
     <<"g", "p", "t", "-", "4">>,
     <<"o", "4">>}

DefaultModel == <<"g", "p", "t", "-", "5", "-", "m", "i", "n", "i">>

\* the prefixes of MODELS_WITH_COMPLETION_TOKENS (the longer entries of the list
\* start with one of these)
CompletionTokenPrefixes ==
    {<<"g", "p", "t", "-", "4", "o">>, <<"g", "p", "t", "-", "5">>, <<"o", "1">>,
     <<"o", "3">>, <<"o", "4", "-", "m", "i", "n", "i">>}

\* String.prototype.startsWith
StartsWith(text, prefix) ==
    Len(prefix) <= Len(text) /\ SubSeq(text, 1, Len(prefix)) = prefix

usesCompletionTokens(model) == \E m \in CompletionTokenPrefixes : StartsWith(model, m)

\* mutant: the GPT-5 family is missing from the test
doesNotSupportTemperatureReasoningOnly(model) ==
    \/ StartsWith(model, <<"o", "1">>)
    \/ StartsWith(model, <<"o", "3">>)
    \/ StartsWith(model, <<"o", "4">>)

doesNotSupportTemperature(model) ==
    \/ StartsWith(model, <<"o", "1">>)
    \/ StartsWith(model, <<"o", "3">>)
    \/ StartsWith(model, <<"o", "4">>)
    \/ StartsWith(model, <<"g", "p", "t", "-", "5">>)

\* options.model || process.env.OPENAI_MODEL || 'gpt-5-mini'
ModelOf(option) == IF option = <<>> THEN DefaultModel ELSE option

\* the values a sampling option is given
OptionValues == {"undefined", "0", "1"}

SamplingOptions == {"temperature", "topP", "frequencyPenalty", "presencePenalty"}

\* value ?? default
Nullish(value, default) == IF value = "undefined" THEN default ELSE value

\* max_completion_tokens or max_tokens, with model and messages
BaseParams(model, tokens) ==
    [k \in {"model", "messages"} |-> "set"]
        @@ (IF usesCompletionTokens(model)
            THEN [k \in {"max_completion_tokens"} |-> tokens]
            ELSE [k \in {"max_tokens"} |-> tokens])

\* the params object of generateCompletion
CompletionParams(model, opts) ==
    BaseParams(model, "8000")
        @@ (IF ~doesNotSupportTemperature(model)
            THEN [temperature |-> Nullish(opts["temperature"], "0.8"),
                  top_p |-> Nullish(opts["topP"], "0.9"),
                  frequency_penalty |-> Nullish(opts["frequencyPenalty"], "0.3"),
                  presence_penalty |-> Nullish(opts["presencePenalty"], "0.2")]
            ELSE <<>>)

\* the params object of generateJSON
JSONParams(model, opts) ==
    BaseParams(model, "4000")
        @@ [k \in {"response_format"} |-> "json_object"]
        @@ (IF ~doesNotSupportTemperature(model)
            THEN [k \in {"temperature"} |-> Nullish(opts["temperature"], "0.7")]
            ELSE <<>>)

ParamsIdle ==
    /\ requestFn = "none"
    /\ modelOption = <<>>
    /\ sampling = <<>>
    /\ params = <<>>
    /\ ppc = "idle"

ParamsInit ==
    /\ requestFn \in {"generateCompletion", "generateJSON"}
    /\ modelOption \in ModelNames \cup {<<>>}
    /\ sampling \in [SamplingOptions -> OptionValues]
    /\ params = <<>>
    /\ ppc = "start"

\* generateCompletion builds its params
BuildCompletionParams ==
    /\ ppc = "start"
    /\ requestFn = "generateCompletion"
    /\ params' = CompletionParams(ModelOf(modelOption), sampling)
    /\ ppc' = "built"
    /\ UNCHANGED <<requestFn, modelOption, sampling>>
    /\ UNCHANGED exceptParams

\* generateJSON builds its params
BuildJSONParams ==
    /\ ppc = "start"
    /\ requestFn = "generateJSON"
    /\ params' = JSONParams(ModelOf(modelOption), sampling)
    /\ ppc' = "built"
    /\ UNCHANGED <<requestFn, modelOption, sampling>>
    /\ UNCHANGED exceptParams

ParamsNext ==
    \/ BuildCompletionParams
    \/ BuildJSONParams

----------------------------------------------------------------------------
(* generateSEO and validateAndAdjustSEO (generators/seo.js), truncateText
   (utils/helpers.js) *)

MaxTerms == 12

MetaTitleMax == 60
MetaTitleMin == 10
MetaDescriptionMax == 160
MetaDescriptionMin == 50
ExcerptMax == 200
ExcerptMin == 50
ContentSlice == 200
KeywordsMax == 8
TagsMax == 5

\* text.slice(from, to) with 0 <= from <= to
Slice(text, from, to) == SubSeq(text, from + 1, Min(to, Len(text)))

\* mutant: the suffix is appended to maxLength characters
truncateTextKeepsMax(text, maxLength) ==
    IF Len(text) <= maxLength THEN text
    ELSE Trim(Slice(text, 0, maxLength)) \o <<".", ".", ".">>

\* truncateText(text, maxLength) with the default suffix '...'
truncateText(text, maxLength) ==
    IF Len(text) <= maxLength THEN text
    ELSE Trim(Slice(text, 0, maxLength - 3)) \o <<".", ".", ".">>

\* content.replace(/[#*_\[\]]/g, '')
StripMarkdown(text) == SelectSeq(text, LAMBDA c : c \notin {"#", "*", "_", "[", "]"})

RECURSIVE Split(_, _)
\* String.prototype.split(sep) for a one-character separator
Split(text, sep) ==
    IF \E j \in 1..Len(text) : text[j] = sep
    THEN LET j == CHOOSE x \in 1..Len(text) :
                      text[x] = sep /\ \A y \in 1..(x - 1) : text[y] # sep
         IN <<SubSeq(text, 1, j - 1)>> \o Split(SubSeq(text, j + 1, Len(text)), sep)
    ELSE <<text>>

RECURSIVE Join(_, _)
\* Array.prototype.join(sep)
Join(items, sep) ==
    IF items = <<>> THEN <<>>
    ELSE IF Len(items) = 1 THEN items[1]
         ELSE items[1] \o sep \o Join(Tail(items), sep)

\* String.prototype.toLowerCase over the letters the texts are written with
ToLowerCase(text) ==
    [j \in 1..Len(text) |->
        IF text[j] = "A" THEN "a" ELSE IF text[j] = "C" THEN "c" ELSE text[j]]

\* .map(k => k.trim().toLowerCase()).filter(k => k.length > 0).slice(0, 8).join(', ')
NormalizeTerms(items) ==
    LET cleaned == [j \in 1..Len(items) |-> ToLowerCase(Trim(items[j]))]
        kept == SelectSeq(cleaned, LAMBDA k : Len(k) > 0)
    IN Join(Slice(kept, 0, KeywordsMax), <<",", SPACE>>)

\* the keywords of the result
NormalizeKeywords(keywords) ==
    IF keywords.type = "string" THEN NormalizeTerms(Split(keywords.text, ","))
    ELSE IF keywords.type = "array" THEN NormalizeTerms(keywords.items)
         ELSE <<>>

\* the tags of the result
NormalizeTags(tags) ==
    LET list == IF tags.type = "string"
                THEN SelectSeq([j \in 1..Len(Split(tags.text, ",")) |->
                                   Trim(Split(tags.text, ",")[j])],
                               LAMBDA t : t # <<>>)
                ELSE IF tags.type = "array" THEN tags.items ELSE <<>>
    IN Slice(list, 0, TagsMax)

\* !value for a value that is a string, null or missing
Falsy(value) == value = Undefined \/ value = <<>>

\* article.content?.replace(...).slice(0, 200) || ''
ContentLead(content) ==
    IF content = Undefined THEN <<>> ELSE Slice(StripMarkdown(content), 0, ContentSlice)

validateAndAdjustSEO(seo, art) ==
    LET metaTitle ==
            IF Falsy(seo.metaTitle) \/ Len(seo.metaTitle) < MetaTitleMin
            THEN truncateText(art.title, MetaTitleMax)
            ELSE IF Len(seo.metaTitle) > MetaTitleMax
                 THEN truncateText(seo.metaTitle, MetaTitleMax)
                 ELSE seo.metaTitle
        metaDescription ==
            IF Falsy(seo.metaDescription) \/ Len(seo.metaDescription) < MetaDescriptionMin
            THEN truncateText(ContentLead(art.content), MetaDescriptionMax)
            ELSE IF Len(seo.metaDescription) > MetaDescriptionMax
                 THEN truncateText(seo.metaDescription, MetaDescriptionMax)
                 ELSE seo.metaDescription
        excerpt ==
            IF Falsy(seo.excerpt) \/ Len(seo.excerpt) < ExcerptMin
            THEN metaDescription
            ELSE IF Len(seo.excerpt) > ExcerptMax
                 THEN truncateText(seo.excerpt, ExcerptMax)
                 ELSE seo.excerpt
    IN [metaTitle |-> metaTitle, metaDescription |-> metaDescription, excerpt |-> excerpt,
        keywords |-> NormalizeKeywords(seo.keywords), tags |-> NormalizeTags(seo.tags)]

\* a text of n letters with two spaces that end at position gap (none when gap = 0)
TextOf(n, gap) == [j \in 1..n |-> IF j \in {gap - 1, gap} THEN SPACE ELSE "a"]

\* a Markdown text of n characters
MarkdownOf(n) ==
    [j \in 1..n |-> IF j % 7 = 1 THEN "#" ELSE IF j % 7 = 4 THEN "*"
                    ELSE IF j % 7 = 5 THEN SPACE ELSE "a"]

\* n keyword terms, some blank, padded or in capitals
TermsOf(n) ==
    [j \in 1..n |-> <<<<SPACE, "A">>, <<"b", SPACE>>, <<SPACE>>, <<"C", SPACE, "d">>>>[(j % 4) + 1]]

Titles == {TextOf(5, 0), TextOf(61, 57), TextOf(90, 0)}
Contents200 == {Undefined, MarkdownOf(30), MarkdownOf(300)}
MetaTitles == {Undefined, TextOf(9, 0), TextOf(60, 0), TextOf(61, 57)}
MetaDescriptions == {Undefined, TextOf(49, 0), TextOf(160, 0), TextOf(161, 157)}
Excerpts == {Undefined, TextOf(49, 0), TextOf(200, 0), TextOf(201, 197)}

TermCounts == {0, 3, MaxTerms}

KeywordValues ==
    {[type |-> "other", text |-> <<>>, items |-> <<>>]}
        \cup {[type |-> "string", text |-> Join(TermsOf(n), <<",">>), items |-> <<>>] :
                 n \in TermCounts}
        \cup {[type |-> "array", text |-> <<>>, items |-> TermsOf(n)] : n \in TermCounts}

TagValues ==
    {[type |-> "other", text |-> <<>>, items |-> <<>>],
     [type |-> "string", text |-> Join(TermsOf(MaxTerms), <<",">>), items |-> <<>>],
     [type |-> "array", text |-> <<>>, items |-> TermsOf(3)],
     [type |-> "array", text |-> <<>>, items |-> TermsOf(MaxTerms)]}

NoSEOResult ==
    [metaTitle |-> <<>>, metaDescription |-> <<>>, excerpt |-> <<>>, keywords |-> <<>>,
     tags |-> <<>>]

NoSEOPayload ==
    [metaTitle |-> Undefined, metaDescription |-> Undefined, excerpt |-> Undefined,
     keywords |-> [type |-> "other", text |-> <<>>, items |-> <<>>],
     tags |-> [type |-> "other", text |-> <<>>, items |-> <<>>]]

SEOIdle ==
    /\ seoArticle = [title |-> <<>>, content |-> <<>>]
    /\ seoPayload = NoSEOPayload
    /\ validated = NoSEOResult
    /\ vpc = "idle"

\* generateSEO(article) is called and waits for generateJSON
SEOInit ==
    /\ seoArticle \in [title : Titles, content : Contents200]
    /\ seoPayload = NoSEOPayload
    /\ validated = NoSEOResult
    /\ vpc = "awaiting"

\* generateJSON returns an object: it is validated, adjusted and returned
SEOPayloadReturns ==
    /\ vpc = "awaiting"
    /\ \E seo \in [metaTitle : MetaTitles, metaDescription : MetaDescriptions,
                   excerpt : Excerpts, keywords : KeywordValues, tags : TagValues] :
          /\ seoPayload' = seo
          /\ validated' = validateAndAdjustSEO(seo, seoArticle)
    /\ vpc' = "returned"
    /\ UNCHANGED seoArticle
    /\ UNCHANGED exceptSEO

\* generateJSON throws, and so does generateSEO
SEOPayloadFails ==
    /\ vpc = "awaiting"
    /\ vpc' = "thrown"
    /\ UNCHANGED <<seoArticle, seoPayload, validated>>
    /\ UNCHANGED exceptSEO

SEONext ==
    \/ SEOPayloadReturns
    \/ SEOPayloadFails

----------------------------------------------------------------------------
(* analyzeSEOScore (generators/seo.js): the points of an article, dimension
   by dimension. The title, the meta title and the meta description are
   texts, scored on their length; the keywords, the words of the content and
   its H2 and H3 headings are given by their counts, NoCount standing for a
   missing or empty field. *)

MaxTitleLength == 85

NoCount == 0 - 1

\* scores.title (0-20): left at 0 when article.title is falsy
TitleScoreExclusive(title) ==
    IF Falsy(title) THEN 0
    ELSE IF Len(title) > 30 /\ Len(title) < 70 THEN 20
    ELSE IF Len(title) > 20 /\ Len(title) < 80 THEN 15
    ELSE 10

TitleScore(title) ==
    IF Falsy(title) THEN 0
    ELSE IF Len(title) >= 30 /\ Len(title) <= 70 THEN 20
    ELSE IF Len(title) >= 20 /\ Len(title) <= 80 THEN 15
    ELSE 10

\* scores.metaTitle (0-15)
MetaTitleScore(metaTitle) ==
    IF Falsy(metaTitle) THEN 0
    ELSE IF Len(metaTitle) >= 50 /\ Len(metaTitle) <= 60 THEN 15
    ELSE IF Len(metaTitle) >= 40 /\ Len(metaTitle) <= 65 THEN 12
    ELSE 8

\* scores.metaDescription (0-15)
MetaDescriptionScore(metaDescription) ==
    IF Falsy(metaDescription) THEN 0
    ELSE IF Len(metaDescription) >= 150 /\ Len(metaDescription) <= 160 THEN 15
    ELSE IF Len(metaDescription) >= 120 /\ Len(metaDescription) <= 170 THEN 12
    ELSE 8

\* scores.keywords (0-15), on the number of non-blank keywords
KeywordsScore(keywordCount) ==
    IF keywordCount = NoCount THEN 0
    ELSE IF keywordCount >= 5 /\ keywordCount <= 8 THEN 15
    ELSE IF keywordCount >= 3 /\ keywordCount <= 10 THEN 12
    ELSE 8

\* scores.content (0-20), on the number of words
ContentScore(wordCount) ==
    IF wordCount = NoCount THEN 0
    ELSE IF wordCount >= 1500 /\ wordCount <= 2500 THEN 20
    ELSE IF wordCount >= 1000 /\ wordCount <= 3000 THEN 15
    ELSE IF wordCount >= 500 THEN 10
    ELSE 5

\* scores.structure (0-15), on the numbers of H2 and H3 headings
StructureScore(h2Count, h3Count) ==
    (IF h2Count >= 4 /\ h2Count <= 8 THEN 10 ELSE IF h2Count >= 2 THEN 6 ELSE 3)
    + (IF h3Count >= 2 THEN 5 ELSE 2)

\* the level of a percentage
LevelOf(percentage) ==
    IF percentage >= 90 THEN "Excellent"
    ELSE IF percentage >= 75 THEN "Bon"
    ELSE IF percentage >= 60 THEN "Acceptable"
    ELSE IF percentage >= 40 THEN "A ameliorer"
    ELSE "Faible"

analyzeSEOScore(a) ==
    LET dims == [title |-> TitleScore(a.title),
                 metaTitle |-> MetaTitleScore(a.metaTitle),
                 metaDescription |-> MetaDescriptionScore(a.metaDescription),
                 keywords |-> KeywordsScore(a.keywordCount),
                 content |-> ContentScore(a.wordCount),
                 structure |-> StructureScore(a.h2Count, a.h3Count)]
        total == dims.title + dims.metaTitle + dims.metaDescription
                 + dims.keywords + dims.content + dims.structure
    IN  [scores |-> dims, totalScore |-> total, maxScore |-> 100,
         percentage |-> total, level |-> LevelOf(total)]

ScoredTitles == {Undefined} \cup {TextOf(n, 0) : n \in 0..MaxTitleLength}

ScoredArticles ==
    [title : ScoredTitles,
     metaTitle : {Undefined, TextOf(39, 0), TextOf(50, 0)},
     metaDescription : {Undefined, TextOf(150, 0)},
     keywordCount : {NoCount, 5},
     wordCount : {NoCount, 1500},
     h2Count : {0, 4},
     h3Count : {0, 2}]

NoScores == [scores |-> <<>>, totalScore |-> 0, maxScore |-> 0, percentage |-> 0,
             level |-> "none"]

ScoreIdle ==
    /\ scored = [title |-> Undefined]
    /\ scores = NoScores
    /\ scpc = "idle"

\* an article is handed to analyzeSEOScore
ScoreInit ==
    /\ scored \in ScoredArticles
    /\ scores = NoScores
    /\ scpc = "called"

\* analyzeSEOScore(article) returns the analysis
AnalyzeSEOScore ==
    /\ scpc = "called"
    /\ scores' = analyzeSEOScore(scored)
    /\ scpc' = "returned"
    /\ UNCHANGED scored
    /\ UNCHANGED exceptScore

ScoreNext ==
    \/ AnalyzeSEOScore

----------------------------------------------------------------------------
(* Concurrent writers (generators/article.js saveArticle, services/database.js):
   several saveArticle runs share the posts collection. Every await of a run
   (each slugExists of generateUniqueSlug, the insertOne of createPost) is a
   step of its own, so the runs interleave between them. *)

Writers == {"w1", "w2"}

\* the collections the writers find, their slugs all different
StoredCollections ==
    {<<>>,
     <<[slug |-> <<"f">>, by |-> "stored"]>>,
     <<[slug |-> <<"f", "-", "1">>, by |-> "stored"]>>,
     <<[slug |-> <<"f">>, by |-> "stored"], [slug |-> <<"f", "-", "1">>, by |-> "stored"]>>,
     <<[slug |-> <<"g">>, by |-> "stored"], [slug |-> <<"f">>, by |-> "stored"],
       [slug |-> <<"f", "-", "1">>, by |-> "stored"], [slug |-> <<"f", "-", "2">>, by |-> "stored"]>>}

\* !!(await collection.findOne({ slug }))
slugExists(collection, s) == \E k \in 1..Len(collection) : collection[k].slug = s

\* mutant: the collection refuses a document whose slug is already stored
insertOneUnique(collection, document) ==
    IF slugExists(collection, document.slug) THEN collection
    ELSE Append(collection, document)

\* collection.insertOne(document): no condition on the slug
insertOne(collection, document) == Append(collection, document)

IdleWriter == [pc |-> "idle", base |-> <<>>, slug |-> <<>>, counter |-> 0, after |-> {}]

\* the writers whose document was inserted
Inserted == {w \in Writers : writers[w].pc = "done"}

WritersIdle ==
    /\ posts = <<>>
    /\ writers = [w \in Writers |-> IdleWriter]

WritersInit ==
    /\ posts \in StoredCollections
    /\ writers = [w \in Writers |-> IdleWriter]

\* saveArticle(article, ...) is called: generateUniqueSlug(article.slug) starts
WriterStarts(w) ==
    /\ writers[w].pc = "idle"
    /\ \E base \in BaseSlugs :
          writers' = [writers EXCEPT ![w] =
                         [pc |-> "probing", base |-> base, slug |-> base, counter |-> 1,
                          after |-> {}]]
    /\ UNCHANGED posts
    /\ UNCHANGED exceptWriters

\* slugExists(slug) answers true: the next candidate
WriterFindsTaken(w) ==
    /\ writers[w].pc = "probing"
    /\ slugExists(posts, writers[w].slug)
    /\ writers' = [writers EXCEPT ![w].slug = Candidate(writers[w].base, writers[w].counter),
                                   ![w].counter = writers[w].counter + 1]
    /\ UNCHANGED posts
    /\ UNCHANGED exceptWriters

\* slugExists(slug) answers false: generateUniqueSlug returns the slug; `after`
\* keeps the writers whose insertion this last probe could see
WriterFindsFree(w) ==
    /\ writers[w].pc = "probing"
    /\ ~slugExists(posts, writers[w].slug)
    /\ writers' = [writers EXCEPT ![w].pc = "unique", ![w].after = Inserted]
    /\ UNCHANGED posts
    /\ UNCHANGED exceptWriters

\* createPost(postData) inserts the document under the slug found
WriterInserts(w) ==
    /\ writers[w].pc = "unique"
    /\ posts' = insertOne(posts, [slug |-> writers[w].slug, by |-> w])
    /\ writers' = [writers EXCEPT ![w].pc = "done"]
    /\ UNCHANGED exceptWriters

WritersNext ==
    \/ \E w \in Writers : WriterStarts(w)
    \/ \E w \in Writers : WriterFindsTaken(w)
    \/ \E w \in Writers : WriterFindsFree(w)
    \/ \E w \in Writers : WriterInserts(w)

----------------------------------------------------------------------------
(* The store connection (services/database.js): the module variables client and
   db, and the calls of connectDatabase and disconnectDatabase, one after the
   other. A MongoClient is named by its rank of creation; db holds the rank of
   the client it was obtained from; 0 stands for null. *)

MaxCalls == 5

NoCall == [fn |-> "none", outcome |-> "none", client |-> 0, db |-> 0, created |-> 0]

\* the call that starts, with the state it finds
Entering(fn) ==
    [fn |-> fn, outcome |-> "running", client |-> client, db |-> db, created |-> created]

\* the same call, over
Left(call, outcome) == [call EXCEPT !.outcome = outcome]

ConnectionIdle ==
    /\ uri = FALSE
    /\ client = 0
    /\ db = 0
    /\ created = 0
    /\ lastCall = NoCall
    /\ completed = 0
    /\ cpc = "idle"

\* the module is loaded: let client = null; let db = null; MONGODB_URI set or not
ConnectionInit ==
    /\ uri \in BOOLEAN
    /\ client = 0
    /\ db = 0
    /\ created = 0
    /\ lastCall = NoCall
    /\ completed = 0
    /\ cpc = "idle"

\* connectDatabase(): if (db) return db
ConnectReturnsCached ==
    /\ cpc = "idle"
    /\ completed < MaxCalls
    /\ db # 0
    /\ lastCall' = Left(Entering("connect"), "returned")
    /\ completed' = completed + 1
    /\ UNCHANGED <<uri, client, db, created, cpc>>
    /\ UNCHANGED exceptConnection

\* connectDatabase(): MONGODB_URI is not set, the function throws
ConnectWithoutURI ==
    /\ cpc = "idle"
    /\ completed < MaxCalls
    /\ db = 0
    /\ ~uri
    /\ lastCall' = Left(Entering("connect"), "thrown")
    /\ completed' = completed + 1
    /\ UNCHANGED <<uri, client, db, created, cpc>>
    /\ UNCHANGED exceptConnection

\* connectDatabase(): client = new MongoClient(uri), then await client.connect();
\* the constructor may throw on the uri, and then nothing is assigned
ConnectStarts ==
    /\ cpc = "idle"
    /\ completed < MaxCalls
    /\ db = 0
    /\ uri
    /\ \E constructed \in BOOLEAN :
          IF constructed
          THEN /\ client' = created + 1
               /\ created' = created + 1
               /\ lastCall' = Entering("connect")
               /\ cpc' = "connecting"
               /\ UNCHANGED completed
          ELSE /\ lastCall' = Left(Entering("connect"), "thrown")
               /\ completed' = completed + 1
               /\ UNCHANGED <<client, created, cpc>>
    /\ UNCHANGED <<uri, db>>
    /\ UNCHANGED exceptConnection

\* client.connect() resolves: db = client.db(dbName); return db
ConnectSucceeds ==
    /\ cpc = "connecting"
    /\ db' = client
    /\ lastCall' = Left(lastCall, "returned")
    /\ completed' = completed + 1
    /\ cpc' = "idle"
    /\ UNCHANGED <<uri, client, created>>
    /\ UNCHANGED exceptConnection

\* client.connect() rejects: the catch block logs and throws again
ConnectFails ==
    /\ cpc = "connecting"
    /\ lastCall' = Left(lastCall, "thrown")
    /\ completed' = completed + 1
    /\ cpc' = "idle"
    /\ UNCHANGED <<uri, client, db, created>>
    /\ UNCHANGED exceptConnection

\* disconnectDatabase(): nothing to do without a client, else await client.close()
DisconnectStarts ==
    /\ cpc = "idle"
    /\ completed < MaxCalls
    /\ IF client = 0
       THEN /\ lastCall' = Left(Entering("disconnect"), "returned")
            /\ completed' = completed + 1
            /\ UNCHANGED cpc
       ELSE /\ lastCall' = Entering("disconnect")
            /\ cpc' = "closing"
            /\ UNCHANGED completed
    /\ UNCHANGED <<uri, client, db, created>>
    /\ UNCHANGED exceptConnection

\* client.close() resolves: client = null; db = null
CloseSucceeds ==
    /\ cpc = "closing"
    /\ client' = 0
    /\ db' = 0
    /\ lastCall' = Left(lastCall, "returned")
    /\ completed' = completed + 1
    /\ cpc' = "idle"
    /\ UNCHANGED <<uri, created>>
    /\ UNCHANGED exceptConnection

\* client.close() rejects: disconnectDatabase throws before the assignments
CloseFails ==
    /\ cpc = "closing"
    /\ lastCall' = Left(lastCall, "thrown")
    /\ completed' = completed + 1
    /\ cpc' = "idle"
    /\ UNCHANGED <<uri, client, db, created>>
    /\ UNCHANGED exceptConnection

ConnectionNext ==
    \/ ConnectReturnsCached
    \/ ConnectWithoutURI
    \/ ConnectStarts
    \/ ConnectSucceeds
    \/ ConnectFails
    \/ DisconnectStarts
    \/ CloseSucceeds
    \/ CloseFails

----------------------------------------------------------------------------
(* Specifications *)

InitRepair ==
    RepairInit /\ ClientIdle /\ TranslatorIdle /\ BatchIdle /\ SaveIdle /\ SearchIdle /\ ParamsIdle /\ SEOIdle /\ ScoreIdle /\ WritersIdle /\ ConnectionIdle

SpecRepair == InitRepair /\ [][RepairNext]_vars

InitClient ==
    ClientInit /\ RepairIdle /\ TranslatorIdle /\ BatchIdle /\ SaveIdle /\ SearchIdle /\ ParamsIdle /\ SEOIdle /\ ScoreIdle /\ WritersIdle /\ ConnectionIdle

SpecClient == InitClient /\ [][ClientNext]_vars

InitTranslator ==
    TranslatorInit /\ RepairIdle /\ ClientIdle /\ BatchIdle /\ SaveIdle /\ SearchIdle /\ ParamsIdle /\ SEOIdle /\ ScoreIdle /\ WritersIdle /\ ConnectionIdle

SpecTranslator == InitTranslator /\ [][TranslatorNext]_vars

InitBatch ==
    BatchInit /\ RepairIdle /\ ClientIdle /\ TranslatorIdle /\ SaveIdle /\ SearchIdle /\ ParamsIdle /\ SEOIdle /\ ScoreIdle /\ WritersIdle /\ ConnectionIdle

SpecBatch == InitBatch /\ [][BatchNext]_vars

InitSave ==
    SaveInit /\ RepairIdle /\ ClientIdle /\ TranslatorIdle /\ BatchIdle /\ SearchIdle /\ ParamsIdle /\ SEOIdle /\ ScoreIdle /\ WritersIdle /\ ConnectionIdle

SpecSave == InitSave /\ [][SaveNext]_vars

InitSearch ==
    SearchInit /\ RepairIdle /\ ClientIdle /\ TranslatorIdle /\ BatchIdle /\ SaveIdle
        /\ ParamsIdle /\ SEOIdle /\ ScoreIdle /\ WritersIdle /\ ConnectionIdle

SpecSearch == InitSearch /\ [][SearchNext]_vars

InitParams ==
    ParamsInit /\ RepairIdle /\ ClientIdle /\ TranslatorIdle /\ BatchIdle /\ SaveIdle
        /\ SearchIdle /\ SEOIdle /\ ScoreIdle /\ WritersIdle /\ ConnectionIdle

SpecParams == InitParams /\ [][ParamsNext]_vars

InitSEO ==
    SEOInit /\ RepairIdle /\ ClientIdle /\ TranslatorIdle /\ BatchIdle /\ SaveIdle
        /\ SearchIdle /\ ParamsIdle /\ ScoreIdle /\ WritersIdle /\ ConnectionIdle

SpecSEO == InitSEO /\ [][SEONext]_vars

InitScore ==
    ScoreInit /\ RepairIdle /\ ClientIdle /\ TranslatorIdle /\ BatchIdle /\ SaveIdle
        /\ SearchIdle /\ ParamsIdle /\ SEOIdle /\ WritersIdle /\ ConnectionIdle

SpecScore == InitScore /\ [][ScoreNext]_vars

InitWriters ==
    WritersInit /\ RepairIdle /\ ClientIdle /\ TranslatorIdle /\ BatchIdle /\ SaveIdle
        /\ SearchIdle /\ ParamsIdle /\ SEOIdle /\ ScoreIdle /\ ConnectionIdle

SpecWriters == InitWriters /\ [][WritersNext]_vars

InitConnection ==
    ConnectionInit /\ RepairIdle /\ ClientIdle /\ TranslatorIdle /\ BatchIdle /\ SaveIdle
        /\ SearchIdle /\ ParamsIdle /\ SEOIdle /\ ScoreIdle /\ WritersIdle

SpecConnection == InitConnection /\ [][ConnectionNext]_vars

----------------------------------------------------------------------------
(* Claims about the completion client *)

\* C5: generateJSON re-issues the request when the response's finish_reason is
\* 'length', at most 2 additional times (at most 3 requests per call), each retry
\* with a budget of min(2 x the previous budget, 16000); after the third
\* length-truncated response it stops retrying.
LengthRetryPolicy ==
    fnKind = "json" =>
        /\ Len(budgets) <= 3
        /\ \A k \in 2..Len(budgets) :
              /\ finishes[k - 1] = "length"
              /\ budgets[k] = (IF 2 * budgets[k - 1] <= 16000 THEN 2 * budgets[k - 1] ELSE 16000)
        /\ pc = "done" =>
              \A k \in 1..Len(finishes) :
                  (finishes[k] = "length" /\ k <= 2) => Len(budgets) > k

\* three length-truncated responses in a row, the last budgets capped, and the call over
LengthRetryWitness ==
    /\ fnKind = "json"
    /\ pc = "done"
    /\ finishes = <<"length", "length", "length">>
    /\ budgets = <<9000, 16000, 16000>>

\* C6: for every well-formed JSON text truncated at any point, repairTruncatedJSON
\* returns a text that JSON.parse accepts and whose top-level keys are the keys of
\* the original present before the truncation point.
RepairRoundTrip ==
    rpc = "parsed" =>
        /\ parsed.ok
        /\ parsed.keys = KeysBefore(original, Len(truncated))

\* the containers still open at the end of json, outermost first, and whether
\* json ends inside a string
RECURSIVE OpenAt(_, _, _)
OpenAt(json, k, st) ==
    IF k > Len(json) THEN st
    ELSE LET char == json[k]
         IN OpenAt(json, k + 1,
                IF st.escaped THEN [st EXCEPT !.escaped = FALSE]
                ELSE IF char = BSLASH THEN [st EXCEPT !.escaped = TRUE]
                ELSE IF char = QUOTE THEN [st EXCEPT !.inString = ~st.inString]
                ELSE IF st.inString THEN st
                ELSE IF char \in {"{", "["} THEN [st EXCEPT !.open = Append(st.open, char)]
                ELSE IF char \in {"}", "]"} /\ st.open # <<>>
                    THEN [st EXCEPT !.open = SubSeq(st.open, 1, Len(st.open) - 1)]
                ELSE st)

\* the closers of the open containers, innermost first
NestedClosers(open) ==
    [k \in 1..Len(open) |-> IF open[Len(open) + 1 - k] = "{" THEN "}" ELSE "]"]

\* C22: repairTruncatedJSON closes an unterminated string first and then appends
\* the closers of the open containers in the reverse of their opening order,
\* innermost first, so that braces and brackets are properly nested.
ClosersAreNested ==
    rpc \in {"repaired", "parsed"} =>
        LET json == Trim(truncated)
            st == OpenAt(json, 1, [open |-> <<>>, inString |-> FALSE, escaped |-> FALSE])
        IN  repaired = json \o (IF st.inString THEN <<QUOTE>> ELSE <<>>)
                            \o NestedClosers(st.open)

\* white space only, or no content at all
OnlyWhitespace(content) ==
    content = Absent \/ \A k \in 1..Len(content) : content[k] = SPACE

\* C7: when generateJSON holds non-empty content that still fails to parse (after
\* structural repair if the response was length-truncated) and no retry remains,
\* it throws the invalid-JSON error; every value it returns is the result of a
\* successful JSON parse.
InvalidJSONThrown ==
    (fnKind = "json" /\ pc = "done") =>
        LET text == IF completion.finish_reason = "length"
                    THEN repairTruncatedJSON(completion.content)
                    ELSE completion.content
        IN /\ result.kind = "value" =>
                 /\ result.json
                 /\ JSONValid(text)
                 /\ result.text = Trim(text)
                 /\ result.keys = TopKeys(text)
           /\ (~OnlyWhitespace(completion.content) /\ ~JSONValid(text)) =>
                 result = Thrown(Failure("invalid_json"))

\* the last permitted attempt got a truncated text that repair does not make parse
InvalidJSONWitness ==
    /\ fnKind = "json"
    /\ pc = "done"
    /\ attempt = 2
    /\ completion.finish_reason = "length"
    /\ completion.content = CutInInnerObject
    /\ result = Thrown(Failure("invalid_json"))

\* C8: generateCompletion classifies the response in this order: a refusal makes it
\* throw the refused error (even with content); otherwise empty or whitespace-only
\* content throws the truncation error when finish_reason is 'length' and the
\* empty-generation error otherwise; otherwise the content is returned, also when
\* finish_reason is 'length'.
CompletionPrecedence ==
    (fnKind = "completion" /\ pc = "done" /\ result.err.name # "http") =>
        IF completion.refusal = "text"
        THEN result = Thrown(Failure("refused"))
        ELSE IF OnlyWhitespace(completion.content)
             THEN IF completion.finish_reason = "length"
                  THEN result = Thrown(Failure("truncated"))
                  ELSE result = Thrown(Failure("empty"))
             ELSE result = ReturnedText(completion.content)

\* a refusal that comes with empty content of a length-truncated response
CompletionPrecedenceWitness ==
    /\ fnKind = "completion"
    /\ pc = "done"
    /\ completion.refusal = "text"
    /\ completion.content = <<>>
    /\ completion.finish_reason = "length"
    /\ result = Thrown(Failure("refused"))

\* C9: every completion HTTP call goes through retryWithBackoff(fn, 3, 2000): fn is
\* invoked at most 3 times, the first success is returned without further
\* invocations, a wait of 2000 ms follows the first failure and 4000 ms the second,
\* and after the third failure the last error is rethrown with no further wait.
BackoffPolicy ==
    LET n == Len(outcomes)
        failures == Cardinality({k \in 1..n : outcomes[k] = "fail"})
    IN /\ n <= 3
       /\ \A k \in 1..(n - 1) : outcomes[k] = "fail"
       /\ (n > 0 /\ outcomes[n] = "ok") => pc \in {"response", "request", "done"}
       /\ pc \in {"fn", "sleep", "rethrow"} => failures = n
       /\ waits = SubSeq(<<2000, 4000>>, 1,
                         IF pc = "sleep" THEN failures - 1
                         ELSE IF failures <= 2 THEN failures ELSE 2)
       /\ pc = "rethrow" => failures = 3
       /\ result.err.name = "http" =>
             /\ failures = 3
             /\ result.err = HttpError(httpCalls)
             /\ result.kind = "throw"

\* three failures in a row: two waits, then the third error is rethrown
BackoffWitness ==
    /\ pc = "done"
    /\ outcomes = <<"fail", "fail", "fail">>
    /\ waits = <<2000, 4000>>
    /\ result = Thrown(HttpError(3))

\* C25: in generateJSON a length-truncated response is repaired and parsed only
\* on the last permitted attempt; on an earlier attempt it is discarded and the
\* request is sent again without any parse, even when its content is complete
\* valid JSON, so the retry of the parse-failure handler is never taken.
TruncatedParsedOnLastAttemptOnly ==
    \A m \in 1..Len(trail) :
        /\ trail[m].step # "parse_retry"
        /\ (trail[m].finish_reason = "length" /\ trail[m].attempt < maxRetries) =>
              trail[m].step = "length_retry"
        /\ (trail[m].finish_reason = "length" /\ trail[m].step = "parse") =>
              trail[m].attempt = maxRetries

\* a complete JSON text cut by the length limit is thrown away on the first
\* attempt; the third truncated response is the one that is parsed
TruncatedParsedOnLastAttemptOnlyWitness ==
    /\ fnKind = "json"
    /\ pc = "done"
    /\ Len(trail) = 3
    /\ trail[1].finish_reason = "length" /\ trail[1].complete
    /\ trail[1].step = "length_retry"
    /\ trail[3].finish_reason = "length"
    /\ trail[3].step = "parse"
    /\ result.kind = "value"

\* the last response was handled by generateJSON, which then returned or threw
HandledLast ==
    /\ fnKind = "json"
    /\ pc = "done"
    /\ outcomes # <<>>
    /\ outcomes[Len(outcomes)] = "ok"

\* C26: a response whose finish_reason is not 'length' ends generateJSON on that
\* very attempt, whatever retries remain: with the empty-content error when the
\* content is empty or white space only, with the invalid-JSON error when the
\* content does not parse.
NonLengthFailsOnTheSpot ==
    /\ \A m \in 1..Len(trail) :
          trail[m].finish_reason # "length" =>
              /\ m = Len(trail)
              /\ pc = "done"
              /\ trail[m].step \in {"empty", "parse"}
              /\ Len(budgets) = m
    /\ (HandledLast /\ completion.finish_reason # "length") =>
          /\ OnlyWhitespace(completion.content) =>
                result = Thrown(Failure("json_empty"))
          /\ (~OnlyWhitespace(completion.content) /\ ~JSONparse(completion.content).ok) =>
                result = Thrown(Failure("invalid_json"))

\* white space only, finish_reason stop, on the first attempt: the empty-content error
NonLengthFailsOnTheSpotWitness ==
    /\ HandledLast
    /\ attempt = 0
    /\ completion.finish_reason = "stop"
    /\ completion.content = <<SPACE>>
    /\ result = Thrown(Failure("json_empty"))

\* the function is over with the value of a successful parse, or with an error
ValueOrThrow ==
    /\ result.kind # "undefined"
    /\ pc = "done" =>
          \/ result.kind = "throw"
          \/ /\ result.kind = "value" /\ result.json
             /\ trail # <<>> /\ trail[Len(trail)].step = "parse"

\* what is left of the call at most: the attempts, then the tries of the HTTP
\* call of the current attempt, then the steps of the current try
Remaining ==
    (3 - attempt) * 100
        + (IF pc = "request" THEN 50
           ELSE (3 - i) * 10
                + (IF pc = "fn" THEN 3 ELSE IF pc = "sleep" THEN 2
                   ELSE IF pc = "done" THEN 0 ELSE 1))

\* C27: every generateJSON call terminates (every step of it, an HTTP call
\* completing included, leaves strictly less to do), either returning the value
\* of a successful JSON parse or throwing; it never leaves the loop by exhausting
\* it, and it makes at most 3 logical requests and at most 9 HTTP calls.
JSONCallTerminates ==
    /\ [](fnKind = "json" =>
             /\ ValueOrThrow
             /\ attempt <= 2
             /\ Len(budgets) <= 3
             /\ httpCalls <= 9
             /\ Remaining >= 0)
    /\ [][fnKind = "json" => Remaining' < Remaining]_vars

\* three truncated responses, each obtained at the third HTTP call
JSONCallTerminatesWitness ==
    /\ fnKind = "json"
    /\ pc = "done"
    /\ Len(budgets) = 3
    /\ httpCalls = 9
    /\ result.kind = "value"

\* C28: within one generateJSON call the budget sent with each retry is at least
\* the budget of the preceding request, whatever the initial options.maxTokens.
BudgetNeverShrinks ==
    fnKind = "json" =>
        \A m \in 1..(Len(budgets) - 1) : budgets[m + 1] >= budgets[m]

----------------------------------------------------------------------------
(* Claims about the translator *)

\* the six locale-keyed values the returned article holds for a locale
SlotsOf(locale) == [f \in SlotNames |-> multilingualArticle[f][locale]]

\* C1: in generateMultilingualArticle, every target locale in which at least one of
\* the title, excerpt or content calls throws holds the source article's title,
\* excerpt, content, seo.metaTitle, seo.metaDescription and seo.keywords verbatim
\* (nothing translated is kept, even from its calls that succeeded), while every
\* target locale whose calls all succeed holds its own translated values.
LocaleIsolation ==
    tpc = "done" =>
        \A k \in 1..Len(locales) :
            /\ (\E u \in {"title", "excerpt", "content"} : textCalls[k][u].state = "fail") =>
                  SlotsOf(locales[k]) =
                      [title |-> article.title, excerpt |-> article.excerpt,
                       content |-> article.content, metaTitle |-> article.seo.metaTitle,
                       metaDescription |-> article.seo.metaDescription,
                       keywords |-> article.seo.keywords]
            /\ ((\A u \in {"title", "excerpt", "content"} : textCalls[k][u].state = "ok")
                    /\ seoCalls[k].state = "ok") =>
                  SlotsOf(locales[k]) =
                      [title |-> textCalls[k]["title"].value,
                       excerpt |-> textCalls[k]["excerpt"].value,
                       content |-> textCalls[k]["content"].value,
                       metaTitle |-> seoCalls[k].value.metaTitle,
                       metaDescription |-> seoCalls[k].value.metaDescription,
                       keywords |-> seoCalls[k].value.keywords]

\* English lost its title call while its content call succeeded; Spanish succeeded
LocaleIsolationWitness ==
    /\ tpc = "done"
    /\ sourceLocale = "fr"
    /\ locales = <<"en", "es">>
    /\ textCalls[1]["title"].state = "fail"
    /\ textCalls[1]["content"].state = "ok"
    /\ seoCalls[1].state = "ok"
    /\ multilingualArticle["content"]["en"] = article.content
    /\ multilingualArticle["title"]["es"] = <<"es", ":", "T">>
    /\ multilingualArticle["keywords"]["es"] = Translation(<<"K">>, "es")

\* C2: generateMultilingualArticle never fails because a translation call failed:
\* for any combination of succeeding and failing calls it returns an article in
\* which each of title, excerpt, content, seo.metaTitle, seo.metaDescription and
\* seo.keywords has an entry for the source locale and for every target locale.
TranslationNeverAborts ==
    /\ tpc # "thrown"
    /\ tpc = "done" =>
          \A f \in {"title", "excerpt", "content", "metaTitle", "metaDescription",
                    "keywords"} :
              DOMAIN multilingualArticle[f] = {sourceLocale} \cup Range(locales)

\* every text call of both targets failed, and the article was returned
TranslationNeverAbortsWitness ==
    /\ tpc = "done"
    /\ Len(locales) = 2
    /\ sourceLocale \notin Range(locales)
    /\ article.excerpt = <<"E">>
    /\ \A k \in 1..2, u \in TextUnits : textCalls[k][u].state = "fail"

\* C13: when the SEO translation call of a locale fails (its JSON completion
\* throws) while the title, excerpt and content calls of that locale succeed, the
\* locale still counts as succeeded: its title, excerpt and content slots hold the
\* translations, and its seo.metaTitle, seo.metaDescription and seo.keywords slots
\* hold the untranslated values of the source article.
SEOFailureFallsBackAlone ==
    tpc = "done" =>
        \A k \in 1..Len(locales) :
            (seoCalls[k].caught /\ \A u \in TextUnits : textCalls[k][u].state = "ok") =>
                /\ results[k].fulfilled
                /\ SlotsOf(locales[k]) =
                      Slots(translateText(article.title, locales[k], sourceLocale),
                            translateText(article.excerpt, locales[k], sourceLocale),
                            translateText(article.content, locales[k], sourceLocale),
                            article.seo)

\* the SEO call of English threw, its three texts were translated
SEOFailureFallsBackAloneWitness ==
    /\ tpc = "done"
    /\ sourceLocale = "fr"
    /\ locales = <<"en">>
    /\ article.excerpt = <<"E">>
    /\ seoCalls[1].caught
    /\ multilingualArticle["title"]["en"] = <<"en", ":", "T">>
    /\ multilingualArticle["excerpt"]["en"] = <<"en", ":", "E">>
    /\ multilingualArticle["metaTitle"]["en"] = article.seo.metaTitle

\* C29: in the article generateMultilingualArticle returns, the seo.metaTitle,
\* seo.metaDescription and seo.keywords slots of every target locale hold a
\* defined value, also when the SEO translation payload lacks an expected key.
SEOSlotsAreDefined ==
    tpc = "done" =>
        \A k \in 1..Len(locales) :
            \A f \in {"metaTitle", "metaDescription", "keywords"} :
                multilingualArticle[f][locales[k]] # Undefined

\* the calls of all targets that need a completion request
CallsWithRequest ==
    {c \in (1..Len(locales)) \X (TextUnits \cup {"seo"}) :
        /\ locales[c[1]] # sourceLocale
        /\ c[2] \in TextUnits =>
              Trim(FieldOf(article, c[2])) # <<>>}

\* what the outcomes of the calls of target k, taken alone, give its slots
SlotsFromOutcomes(k) ==
    IF \E u \in TextUnits : textCalls[k][u].state = "fail"
    THEN Slots(article.title, article.excerpt, article.content, article.seo)
    ELSE Slots(textCalls[k]["title"].value, textCalls[k]["excerpt"].value,
               textCalls[k]["content"].value, seoCalls[k].value)

\* C14: in generateMultilingualArticle the requests of all target locales, and of
\* the four units of each, are issued before any of their results is awaited (all
\* of them are out as soon as the function waits, and none is issued later), and
\* for given outcomes of the calls the returned article is the same whatever the
\* order in which the calls complete.
IssuedTogetherOrderFree ==
    /\ tpc \in {"awaiting", "done", "thrown"} =>
          /\ requests = Cardinality(CallsWithRequest)
          /\ DOMAIN textCalls = 1..Len(locales)
          /\ DOMAIN seoCalls = 1..Len(locales)
    /\ tpc = "done" =>
          \A k \in 1..Len(locales) : SlotsOf(locales[k]) = SlotsFromOutcomes(k)

\* two targets: all eight requests are out and nothing has completed yet
IssuedTogetherOrderFreeWitness ==
    /\ tpc = "awaiting"
    /\ Len(locales) = 2
    /\ requests = 8
    /\ \A k \in 1..2 :
          /\ seoCalls[k].state = "pending"
          /\ \A u \in TextUnits : textCalls[k][u].state = "pending"

\* C15: for every locale L, translateText(text, L, L) returns text unchanged and
\* translateSEO(seo, L, L) returns seo unchanged, and neither issues a completion
\* request.
SameLocaleIsNoOp ==
    tpc \in {"awaiting", "done"} =>
        /\ \A k \in 1..Len(locales) :
              locales[k] = sourceLocale =>
                  /\ \A u \in TextUnits :
                        textCalls[k][u] = [state |-> "ok", value |-> FieldOf(article, u)]
                  /\ seoCalls[k] = [state |-> "ok", value |-> article.seo,
                                    caught |-> FALSE]
        /\ requests = Cardinality({k \in 1..Len(locales) : locales[k] # sourceLocale})
                          * (1 + Cardinality({u \in TextUnits :
                                                 Trim(FieldOf(article, u)) # <<>>}))

\* Spanish into Spanish: the article is returned and no request was issued
SameLocaleIsNoOpWitness ==
    /\ tpc = "done"
    /\ sourceLocale = "es"
    /\ locales = <<"es">>
    /\ article.excerpt = <<"E">>
    /\ requests = 0
    /\ multilingualArticle["content"]["es"] = article.content

----------------------------------------------------------------------------
(* Claims about the article pipeline and the batch *)

StageIndex(stage) == CHOOSE j \in 1..Len(Stages) : Stages[j] = stage

\* the stages a log starts, in the order it starts them
StartedIn(log) ==
    LET starts == SelectSeq(log, LAMBDA e : e.ev = "start")
    IN [j \in 1..Len(starts) |-> starts[j].stage]

\* every log there is: the finished calls, and the running one
AllLogs ==
    {finished[j].log : j \in 1..Len(finished)}
        \cup (IF bpc = "generating" THEN {glog} ELSE {})

\* C3: if planning, writing or SEO generation throws inside generateArticle, no
\* later stage is started, the failed stage is not run again, no article (not even
\* a partial one) is returned, and the error that was raised is the one the caller
\* receives (the batch records it for that topic).
FailureAbortsArticle ==
    \A j \in 1..Len(finished) :
        LET call == finished[j]
            started == StartedIn(call.log)
        IN call.raised # NoErr =>
              /\ call.raised.stage \in {"planning", "writing", "seo"}
              /\ call.log[Len(call.log)] = Start(call.raised.stage)
              /\ \A m \in 1..Len(started) :
                    StageIndex(started[m]) <= StageIndex(call.raised.stage)
              /\ Cardinality({m \in 1..Len(started) : started[m] = call.raised.stage}) = 1
              /\ call.outcome.kind = "throw"
              /\ call.outcome.article = NoArt
              /\ call.outcome.err = call.raised
              /\ \E m \in 1..Len(errors) :
                    errors[m] = [topic |-> call.topic, error |-> Message(call.raised)]
              /\ \A m \in 1..Len(articles) : articles[m].topic # call.topic

\* the SEO call of the first topic threw after research, planning and writing
FailureAbortsArticleWitness ==
    /\ Len(finished) >= 1
    /\ finished[1].raised = [stage |-> "seo", topic |-> 1, name |-> "client"]
    /\ StartedIn(finished[1].log) = <<"research", "planning", "writing", "post", "seo">>
    /\ finished[1].outcome.kind = "throw"

\* the stages an article that is returned has gone through
StagesOfSuccess(input) ==
    (IF researchOnline THEN <<"research">> ELSE <<>>)
        \o (IF NeedsPlanning(input) THEN <<"planning">> ELSE <<>>)
        \o <<"writing", "post", "seo", "assembly">>

\* C4: in generateArticle the stages run in the order research (only when
\* options.researchOnline is set), planning, writing, post-processing, SEO
\* generation, assembly; no stage starts before the previous one has completed; and
\* when researchOnline is not set no search request is issued at all.
StagesInOrder ==
    /\ \A log \in AllLogs :
          LET started == StartedIn(log)
          IN /\ \A m \in 1..Len(log) :
                   IF m % 2 = 1 THEN log[m].ev = "start"
                   ELSE log[m] = End(log[m - 1].stage)
             /\ \A m \in 1..(Len(started) - 1) :
                   StageIndex(started[m]) < StageIndex(started[m + 1])
             /\ ("research" \in Range(started)) <=> researchOnline
    /\ \A j \in 1..Len(finished) :
          finished[j].outcome.kind = "value" =>
              StartedIn(finished[j].log) = StagesOfSuccess(topics[finished[j].topic])
    /\ ~researchOnline => searches = 0
    /\ researchOnline =>
          searches = SearchQueries * Cardinality({m \in 1..Len(batchLog) :
                                                    batchLog[m].ev = "begin"})

\* an article was returned after research and the five other stages
StagesInOrderWitness ==
    /\ researchOnline
    /\ Len(finished) >= 1
    /\ finished[1].outcome.kind = "value"
    /\ StartedIn(finished[1].log) = Stages
    /\ searches >= SearchQueries

\* the begin and end events of the batch
Calls == SelectSeq(batchLog, LAMBDA e : e.ev \in {"begin", "end"})

Increasing(seq) == \A m \in 1..(Len(seq) - 1) : seq[m].topic < seq[m + 1].topic

\* C10: generateArticleBatch processes the topics one at a time in input order and
\* never starts topic i+1 before topic i has finished; a failure of one topic is
\* recorded in errors and the remaining topics are still processed; on return
\* articles.length + errors.length = topics.length and both lists keep the input
\* order.
BatchIsSequential ==
    /\ \A m \in 1..Len(Calls) :
          /\ Calls[m].topic = (m + 1) \div 2
          /\ Calls[m].ev = IF m % 2 = 1 THEN "begin" ELSE "end"
    /\ \A j \in 1..Len(finished) :
          finished[j].raised # NoErr =>
              \E m \in 1..Len(errors) :
                  errors[m] = [topic |-> finished[j].topic,
                               error |-> Message(finished[j].raised)]
    /\ Increasing(articles)
    /\ Increasing(errors)
    /\ bpc = "returned" =>
          /\ Len(Calls) = 2 * Len(topics)
          /\ Len(articles) + Len(errors) = Len(topics)
          /\ {articles[m].topic : m \in 1..Len(articles)}
                 \cup {errors[m].topic : m \in 1..Len(errors)} = 1..Len(topics)

\* the first topic failed, the second one was still generated, and the batch returned
BatchIsSequentialWitness ==
    /\ bpc = "returned"
    /\ Len(topics) = 2
    /\ Len(errors) = 1
    /\ errors[1].topic = 1
    /\ Len(articles) = 1
    /\ articles[1].topic = 2

\* C24: between any two successive generations the fixed pause elapses before
\* the next one starts, whatever the outcome of the earlier generation, and no
\* pause follows the last item.
PauseBetweenGenerations ==
    /\ \A m \in 2..Len(batchLog) :
          batchLog[m].ev = "begin" =>
              /\ batchLog[m - 1].ev = "pause"
              /\ batchLog[m - 1].ms = BatchPause
              /\ batchLog[m - 1].topic = batchLog[m].topic - 1
    /\ \A m \in 1..Len(batchLog) :
          batchLog[m].ev = "pause" => batchLog[m].topic < Len(topics)

----------------------------------------------------------------------------
(* Claims about saving *)

\* C11: every article generateArticle returns, and every document saveArticle hands
\* to createPost (interactive program and cron), has status 'published' if and only
\* if its publishedAt is not null.
PublishedIffDated ==
    /\ (generated.status = "published") <=> (generated.publishedAt # Null)
    /\ \A j \in 1..Len(handed) :
          (handed[j].status = "published") <=> (handed[j].publishedAt # Null)

\* an article generated as published was saved as a draft
PublishedIffDatedWitness ==
    /\ Len(handed) >= 1
    /\ generated.status = "published"
    /\ generated.publishedAt = <<"iso">>
    /\ handed[Len(handed)].status = "draft"
    /\ spc = "idle"

\* base-k as the store spells it
Numbered(base, k) == base \o <<"-">> \o DecimalString(k)

\* C16: generateUniqueSlug(base) returns base when no stored document has the slug
\* base, and otherwise base-k for the smallest k >= 1 such that base-k is not
\* stored; the slug it returns was not in the store at its last probe.
SmallestFreeSlug ==
    spc = "unique" =>
        LET base == generated.slug
        IN /\ base \notin store => uniqueSlug = base
           /\ base \in store =>
                 \E k \in 1..(Cardinality(store) + 1) :
                     /\ uniqueSlug = Numbered(base, k)
                     /\ \A j \in 1..(k - 1) : Numbered(base, j) \in store
           /\ uniqueSlug \notin store
           /\ probes[Len(probes)] = [slug |-> uniqueSlug, exists |-> FALSE]

\* f and f-1 are stored: f-2 is returned after three probes
SmallestFreeSlugWitness ==
    /\ spc = "unique"
    /\ generated.slug = <<"f">>
    /\ {<<"f">>, <<"f", "-", "1">>} \subseteq store
    /\ uniqueSlug = <<"f", "-", "2">>
    /\ Len(probes) = 3

----------------------------------------------------------------------------
(* Claims about the search aggregator *)

\* the backends whose key is set, in priority order
Configured == SelectSeq(Backends, LAMBDA b : b \in credentials)

\* the backends a call has sent a request to, in order
Asked(call) ==
    [p \in 1..Len(call.queried) |-> call.queried[p].backend]
        \o (IF call.waiting # 0 THEN <<Backends[call.waiting]>> ELSE <<>>)

WebCalls == {k \in 1..Len(calls) : calls[k].kind = "web"}

\* C17: fetchWebSearch queries the backends in the order Brave, Serper, News API,
\* skipping every backend without credentials, and returns exactly the results of
\* the first queried backend that yields at least one result; it never queries a
\* backend after an earlier one returned results, never merges the results of
\* several backends, and returns an empty list when none yields a result.
FirstBackendWithResults ==
    \A k \in WebCalls :
        LET call == calls[k]
            asked == Asked(call)
            n == Len(call.queried)
        IN /\ Len(asked) <= Len(Configured)
           /\ \A p \in 1..Len(asked) : asked[p] = Configured[p]
           /\ \A p \in 1..(Len(asked) - 1) : call.queried[p].outcome # "results"
           /\ call.done =>
                 IF n > 0 /\ call.queried[n].outcome = "results"
                 THEN /\ call.result # <<>>
                      /\ \A m \in 1..Len(call.result) :
                            call.result[m].backend = call.queried[n].backend
                 ELSE /\ call.result = <<>>
                      /\ n = Len(Configured)
           /\ (opc = "done" /\ operation = "fetchWebSearch") => found = call.result

\* without a Serper key: Brave had nothing, News API was asked next and its results
\* were returned
FirstBackendWithResultsWitness ==
    /\ operation = "fetchWebSearch"
    /\ credentials = {"brave", "news"}
    /\ opc = "done"
    /\ Asked(calls[1]) = <<"brave", "news">>
    /\ calls[1].queried[1].outcome = "empty"
    /\ found = <<[backend |-> "news"]>>

\* C18: a network or HTTP error in a search backend is caught inside the fetch
\* function of that backend, which then contributes an empty list; fetchWebSearch
\* goes on to the next configured backend; and fetchWebSearch, getTrendingTopics
\* and researchTopicOnline never throw because of a backend error.
BackendErrorsAreContained ==
    /\ opc # "thrown"
    /\ \A k \in 1..Len(calls) :
          LET call == calls[k]
          IN /\ ~call.threw
             /\ \A p \in 1..Len(call.queried) :
                   call.queried[p].outcome = "error" =>
                       /\ \A m \in 1..Len(call.result) :
                             call.result[m].backend # call.queried[p].backend
                       /\ (call.kind = "web" /\ p < Len(Configured)) =>
                             /\ Len(Asked(call)) > p
                             /\ Asked(call)[p + 1] = Configured[p + 1]
                       /\ (call.kind = "news" \/ p = Len(Configured)) =>
                             call.done /\ call.result = <<>>

\* researchTopicOnline returned the Serper results of one query although Brave
\* failed for all three
BackendErrorsAreContainedWitness ==
    /\ operation = "researchTopicOnline"
    /\ credentials = {"brave", "serper"}
    /\ opc = "done"
    /\ \A k \in 1..Len(calls) : calls[k].queried[1].outcome = "error"
    /\ found = <<[backend |-> "serper"]>>

----------------------------------------------------------------------------
(* Claims about the request parameters *)

\* the model name starts with o1, o3, o4 or gpt-5
ReasoningStyle(model) ==
    \E prefix \in {<<"o", "1">>, <<"o", "3">>, <<"o", "4">>, <<"g", "p", "t", "-", "5">>} :
        Len(model) >= Len(prefix) /\ \A j \in 1..Len(prefix) : model[j] = prefix[j]

\* C19: for every model name starting with o1, o3, o4 or gpt-5, the request
\* parameters built by generateCompletion and by generateJSON contain none of
\* temperature, top_p, frequency_penalty and presence_penalty, whatever sampling
\* options the caller passes.
NoSamplingForReasoningModels ==
    (ppc = "built" /\ ReasoningStyle(ModelOf(modelOption))) =>
        DOMAIN params \cap {"temperature", "top_p", "frequency_penalty",
                            "presence_penalty"} = {}

\* gpt-5.1 with every sampling option given: generateCompletion sends none of them
NoSamplingForReasoningModelsWitness ==
    /\ ppc = "built"
    /\ requestFn = "generateCompletion"
    /\ modelOption = <<"g", "p", "t", "-", "5", ".", "1">>
    /\ \A o \in SamplingOptions : sampling[o] = "1"
    /\ DOMAIN params = {"model", "messages", "max_completion_tokens"}

----------------------------------------------------------------------------
(* Claims about the SEO metadata *)

\* the terms of a comma-joined string
TermsIn(text) == IF text = <<>> THEN <<>> ELSE Split(text, ",")

\* C20: for an article with a title string and any object returned by the model
\* (keywords given as a string or as a list of strings), generateSEO returns a
\* metaTitle of at most 60 characters, a metaDescription of at most 160, an excerpt
\* of at most 200, keywords as a comma-joined string of at most 8 lowercased,
\* trimmed, non-empty terms, and at most 5 tags.
SEOWithinLimits ==
    vpc = "returned" =>
        /\ Len(validated.metaTitle) <= 60
        /\ Len(validated.metaDescription) <= 160
        /\ Len(validated.excerpt) <= 200
        /\ Len(TermsIn(validated.keywords)) <= 8
        /\ \A j \in 1..Len(TermsIn(validated.keywords)) :
              LET term == TermsIn(validated.keywords)[j]
                  bare == IF j = 1 THEN term ELSE Tail(term)
              IN /\ j > 1 => Head(term) = SPACE
                 /\ bare # <<>>
                 /\ Head(bare) # SPACE
                 /\ bare[Len(bare)] # SPACE
                 /\ \A m \in 1..Len(bare) : bare[m] \notin {"A", "C"}
        /\ Len(validated.tags) <= 5

\* a title of 61 characters replaced a metaTitle of 9, a description of 161 was cut,
\* and a list of twelve keywords, nine of them not blank, was brought down to eight
SEOWithinLimitsWitness ==
    /\ vpc = "returned"
    /\ Len(seoArticle.title) = 61
    /\ seoPayload.metaTitle = TextOf(9, 0)
    /\ Len(validated.metaTitle) = 58
    /\ Len(seoPayload.metaDescription) = 161
    /\ Len(validated.metaDescription) = 158
    /\ seoPayload.keywords.type = "array"
    /\ Len(seoPayload.keywords.items) = 12
    /\ Len(TermsIn(validated.keywords)) = 8
    /\ Len(seoPayload.tags.items) = 12
    /\ Len(validated.tags) = 5

----------------------------------------------------------------------------
(* Claims about the SEO score *)

\* C21 (as amended): once analyzeSEOScore has returned, a non-empty title
\* scores 20 points when its length is in [30,70], 15 in [20,29] and in
\* [71,80], 10 from 1 to 19 and from 81 on; an empty or missing title scores 0.
TitleBands ==
    scpc = "returned" =>
        LET n == IF scored.title = Undefined THEN 0 ELSE Len(scored.title)
            points == scores.scores.title
        IN  /\ (scored.title = Undefined \/ n = 0) => points = 0
            /\ (scored.title # Undefined /\ n \in 30..70) => points = 20
            /\ (scored.title # Undefined /\ n \in (20..29) \cup (71..80)) => points = 15
            /\ (scored.title # Undefined /\ (n \in 1..19 \/ n >= 81)) => points = 10

TitleBandsWitness ==
    /\ scpc = "returned"
    /\ scored.title # Undefined
    /\ Len(scored.title) = 81
    /\ scores.scores.title = 10

\* C21 (as stated): every title scores 20 points in [30,70], 15 in [20,29]
\* and in [71,80], and 10 for the lengths 19 and below or 81 and above.
TitleBandsEveryLength ==
    (scpc = "returned" /\ scored.title # Undefined) =>
        LET n == Len(scored.title)
            points == scores.scores.title
        IN  /\ n \in 30..70 => points = 20
            /\ n \in (20..29) \cup (71..80) => points = 15
            /\ (n <= 19 \/ n >= 81) => points = 10

----------------------------------------------------------------------------
(* Claims about concurrent writers *)

\* the positions of the documents a writer stored
DocumentsBy(w) == {k \in 1..Len(posts) : posts[k].by = w}

\* both runs completed their probe before either inserted
ProbedBeforeEitherInserted(a, b) ==
    a \notin writers[b].after /\ b \notin writers[a].after

\* C23: slug uniqueness holds for sequential saves but not under concurrent
\* writers: when two saveArticle runs with the same base slug both complete
\* their probe before either inserts, two stored documents have the same slug;
\* when the probe of one ends after the insertion of the other, their slugs differ.
ConcurrentWritersShareSlug ==
    \A a \in Writers, b \in Writers :
        (a # b /\ writers[a].pc = "done" /\ writers[b].pc = "done") =>
            /\ (ProbedBeforeEitherInserted(a, b) /\ writers[a].base = writers[b].base) =>
                  \E p \in DocumentsBy(a), q \in DocumentsBy(b) : posts[p].slug = posts[q].slug
            /\ ~ProbedBeforeEitherInserted(a, b) =>
                  \A p \in DocumentsBy(a), q \in DocumentsBy(b) : posts[p].slug # posts[q].slug

\* f is stored, both writers probe f and f-1 before either inserts: f-1 twice
ConcurrentWritersShareSlugWitness ==
    /\ writers["w1"].pc = "done" /\ writers["w2"].pc = "done"
    /\ writers["w1"].base = <<"f">> /\ writers["w2"].base = <<"f">>
    /\ writers["w1"].after = {} /\ writers["w2"].after = {}
    /\ Len(posts) = 3
    /\ posts[2].slug = <<"f", "-", "1">>
    /\ posts[3].slug = <<"f", "-", "1">>

----------------------------------------------------------------------------
(* Claims about the store connection *)

\* C30: after every completed connectDatabase or disconnectDatabase call, client
\* and db are both null or both set: a failing connectDatabase leaves the state
\* as it was (no client retained), a successful one is reused by later calls
\* without a second client being created, and disconnectDatabase resets both.
ClientAndDbArePaired ==
    cpc = "idle" =>
        /\ (client = 0) <=> (db = 0)
        /\ (lastCall.fn = "connect" /\ lastCall.outcome = "thrown") =>
              client = lastCall.client /\ db = lastCall.db
        /\ (lastCall.fn = "connect" /\ lastCall.outcome = "returned" /\ lastCall.db # 0) =>
              created = lastCall.created /\ db = lastCall.db
        /\ (lastCall.fn = "disconnect" /\ lastCall.outcome = "returned") =>
              client = 0 /\ db = 0

====
